---- MODULE Spec2Model ----
(***************************************************************************)
(* Model of the Angular migration tool: the version table and chain        *)
(* construction (migration/versions.ts), the peer-dependency conflict      *)
(* analysis and the dependency update with its install retry               *)
(* (migration/dependencies.ts), the migration analysis                     *)
(* (migration/detector.ts), the orchestrator's run and step machine        *)
(* (migration/orchestrator.ts) and the check-conflicts command (cli.ts).   *)
(*                                                                         *)
(* Versions are major numbers.  A semver range is an interval <<lo, hi>>   *)
(* of majors ("^18.2.0" is <<18, 18>>); the empty tuple stands for an      *)
(* absent entry and 0 for an absent version.                               *)
(***************************************************************************)
EXTENDS Integers, Sequences, FiniteSets, TLC

VARIABLES
  pc,          \* position of the running operation
  opts,        \* MigrationOptions of the current migrate call
  target,      \* targetVersion argument
  manifest,    \* package.json: declared dependencies and overrides
  installed,   \* node_modules: installed version per package (0 = absent)
  lockFile,    \* TRUE while a lock file exists in the project root
  registry,    \* npm registry answers (peer requirements, version lists)
  pm,          \* DependencyMigrator.packageManager.name
  analysis,    \* MigrationAnalysis computed by analyzeMigration
  chain,       \* migrationChain of the run
  idx,         \* loop variable i of migrate (1-based)
  steps,       \* steps pushed so far
  step,        \* the MigrationStep under construction
  plan,        \* conflictResolution of the current step
  depResult,   \* DependencyUpdateResult under construction
  ngIdx,       \* index of the next ng update command
  success,     \* run-level success flag of migrate
  backupPath,  \* value of backupPath in migrate
  result,      \* returned MigrationResult
  trace,       \* external effects performed so far, in order
  chainCalls,  \* arguments of every getMigrationChain invocation
  faults,      \* external calls that have failed so far
  fnIn,        \* input of a function applied on its own
  fnOut        \* its output

vars == <<pc, opts, target, manifest, installed, lockFile, registry, pm,
          analysis, chain, idx, steps, step, plan, depResult, ngIdx, success,
          backupPath, result, trace, chainCalls, faults, fnIn, fnOut>>

----------------------------------------------------------------------------
(* Bounds *)

\* lowest and highest version numbers handed to getMigrationChain on its own
MinArg == 15
MaxArg == 22

\* highest version of a peer package known to the registry when the conflict
\* analysis is applied on its own
MaxPeerVer == 18

\* most external calls (backup, install, ng update, transformation, tests)
\* that fail or misbehave in one run
MaxFaults == 2

----------------------------------------------------------------------------
(* Basic values *)

NoRange == <<>>
NoVersion == 0

\* the versions the commands accept (cli.ts)
MinVersion == 17
MaxVersion == 20

PackageManagers == {"npm", "yarn", "pnpm"}

Packages == {"core", "material", "lib"}

\* insertion order of the entries of package.json
PackageOrder == <<"core", "material", "lib">>

Range(lo, hi) == <<lo, hi>>

NoDeclared == [p \in Packages |-> NoRange]
NoInstalled == [p \in Packages |-> NoVersion]
NoManifest ==
  [deps |-> NoDeclared, overrides |-> NoInstalled, resolutions |-> NoInstalled]
NoPeers == [p \in Packages |-> [kind |-> "none", range |-> NoRange]]
NoRegistry ==
  [info |-> [p \in Packages |-> [ok |-> TRUE, peers |-> NoPeers]],
   versions |-> [p \in Packages |-> [ok |-> TRUE, list |-> <<>>]]]

\* "^N.2.0"
Caret(n) == Range(n, n)

\* semver.satisfies(version, range)
Satisfies(v, r) == r # NoRange /\ r[1] <= v /\ v <= r[2]

\* semver.intersects(r1, r2)
Intersects(r1, r2) ==
  /\ r1 # NoRange
  /\ r2 # NoRange
  /\ (IF r1[1] >= r2[1] THEN r1[1] ELSE r2[1]) <= (IF r1[2] <= r2[2] THEN r1[2] ELSE r2[2])

\* semver.coerce(declared).version: the first version number in the string
Coerce(declared) == IF declared = NoRange THEN NoVersion ELSE declared[1]

\* DependencyMigrator.versionSatisfiesRange
versionSatisfiesRange(version, range) ==
  IF Coerce(version) = NoVersion THEN FALSE ELSE Satisfies(Coerce(version), range)

----------------------------------------------------------------------------
(* migration/versions.ts *)

BreakingChange(id, impact, autoFixable) ==
  [id |-> id, impact |-> impact, autoFixable |-> autoFixable]

Dep(name, n) == [name |-> name, version |-> Caret(n)]

MigrationPathOf(from, to, changes) ==
  [from |-> from, to |-> to,
   dependencies |-> <<Dep("core", to), Dep("material", to)>>,
   breakingChanges |-> changes,
   ngUpdateCommands |-> <<"core", "material">>]

ANGULAR_MIGRATIONS ==
  (<<17, 18>> :> MigrationPathOf(17, 18,
      <<BreakingChange("ng18-control-flow", "medium", TRUE),
        BreakingChange("ng18-material3", "high", FALSE),
        BreakingChange("ng18-zoneless", "low", FALSE),
        BreakingChange("ng18-event-replay", "low", TRUE)>>))
  @@
  (<<18, 19>> :> MigrationPathOf(18, 19,
      <<BreakingChange("ng19-standalone-default", "low", TRUE),
        BreakingChange("ng19-incremental-hydration", "medium", TRUE),
        BreakingChange("ng19-modern-bundling", "medium", FALSE),
        BreakingChange("ng19-signal-apis", "low", FALSE)>>))
  @@
  (<<19, 20>> :> MigrationPathOf(19, 20,
      <<BreakingChange("ng20-full-signals", "high", TRUE),
        BreakingChange("ng20-zoneless-default", "high", TRUE),
        BreakingChange("ng20-advanced-bundling", "medium", FALSE)>>))

\* getMigrationPath: <<>> stands for null
getMigrationPath(from, to) ==
  IF <<from, to>> \in DOMAIN ANGULAR_MIGRATIONS
  THEN <<ANGULAR_MIGRATIONS[<<from, to>>]>>
  ELSE <<>>

RECURSIVE ChainLoop(_, _, _)
ChainLoop(acc, current, to) ==
  IF current < to
  THEN LET migration == getMigrationPath(current, current + 1) IN
       IF migration = <<>>
       THEN [ok |-> FALSE, chain |-> <<>>, missing |-> <<current, current + 1>>]
       ELSE ChainLoop(Append(acc, migration[1]), current + 1, to)
  ELSE [ok |-> TRUE, chain |-> acc, missing |-> <<>>]

\* a chain construction that skips the first adjacency
getMigrationChainSkipFirst(from, to) == ChainLoop(<<>>, from + 1, to)

\* getMigrationChain: ok = FALSE when it throws, missing = the pair named
\* in the error message
getMigrationChain(from, to) == ChainLoop(<<>>, from, to)

----------------------------------------------------------------------------
(* migration/dependencies.ts: peer-dependency conflict analysis *)

\* getPackageInfo: `npm view name@version --json`; ok = FALSE when it throws.
\* A peer requirement of kind "tracks" is the range that was asked for
\* (as @angular/material@^18 requires @angular/core ^18).
getPackageInfo(packageName, version) ==
  LET e == registry.info[packageName] IN
  [ok |-> e.ok,
   peerDependencies |->
     [p \in Packages |->
        IF ~e.ok THEN NoRange
        ELSE IF e.peers[p].kind = "fixed" THEN e.peers[p].range
        ELSE IF e.peers[p].kind = "tracks" THEN version
        ELSE NoRange]]

\* getAvailableVersions: `npm view name versions --json`, oldest first
getAvailableVersions(packageName) == registry.versions[packageName]

\* getInstalledVersion: 0 stands for null
getInstalledVersion(packageName) == installed[packageName]

\* the largest index of versions whose entry satisfies every range, or 0
RECURSIVE LastSatisfying(_, _, _)
LastSatisfying(versions, ranges, k) ==
  IF k = 0 THEN 0
  ELSE IF \A j \in 1..Len(ranges) : Satisfies(versions[k], ranges[j]) THEN k
  ELSE LastSatisfying(versions, ranges, k - 1)

\* an intersection search that never finds a version
findVersionIntersectionNone(packageName, ranges) == NoVersion

\* findVersionIntersection: 0 stands for null
findVersionIntersection(packageName, ranges) ==
  LET versions == getAvailableVersions(packageName) IN
  IF ~versions.ok THEN NoVersion
  ELSE LET k == LastSatisfying(versions.list, ranges, Len(versions.list)) IN
       IF k = 0 THEN NoVersion ELSE versions.list[k]

\* a search for competing requirements that one failed lookup aborts
findConflictingRequirementsFatal(peerName, peerRange, currentDeps) ==
  LET Declared(depName) == currentDeps[depName] # NoRange
      Requires(depName) ==
        /\ Declared(depName)
        /\ getPackageInfo(depName, currentDeps[depName]).peerDependencies[peerName] # NoRange
      owners == SelectSeq(PackageOrder, Requires)
  IN IF \E d \in Packages : Declared(d) /\ ~getPackageInfo(d, currentDeps[d]).ok
     THEN <<>>
     ELSE [k \in 1..Len(owners) |->
             LET otherRange ==
                   getPackageInfo(owners[k], currentDeps[owners[k]]).peerDependencies[peerName]
             IN [requiredBy |-> owners[k],
                 version |-> otherRange,
                 satisfied |-> Intersects(peerRange, otherRange)]]

\* findConflictingRequirements
findConflictingRequirements(peerName, peerRange, currentDeps) ==
  LET Requires(depName) ==
        /\ currentDeps[depName] # NoRange
        /\ getPackageInfo(depName, currentDeps[depName]).ok
        /\ getPackageInfo(depName, currentDeps[depName]).peerDependencies[peerName] # NoRange
      owners == SelectSeq(PackageOrder, Requires)
  IN [k \in 1..Len(owners) |->
        LET otherRange ==
              getPackageInfo(owners[k], currentDeps[owners[k]]).peerDependencies[peerName]
        IN [requiredBy |-> owners[k],
            version |-> otherRange,
            satisfied |-> Intersects(peerRange, otherRange)]]

AllRanges(primaryRange, conflictingRequirements) ==
  <<primaryRange>> \o
  [k \in 1..Len(conflictingRequirements) |-> conflictingRequirements[k].version]

\* determineResolutionStrategy
determineResolutionStrategy(packageName, requiredRange, conflictingRequirements) ==
  IF Len(conflictingRequirements) = 0 THEN "upgrade"
  ELSE IF findVersionIntersection(packageName,
            AllRanges(requiredRange, conflictingRequirements)) # NoVersion
       THEN "upgrade"
  ELSE IF pm = "npm" \/ pm = "yarn" THEN "overrides"
  ELSE "manual"

\* findBestVersion: 0 stands for null
findBestVersion(packageName, primaryRange, conflictingRequirements) ==
  LET intersection ==
        findVersionIntersection(packageName,
          AllRanges(primaryRange, conflictingRequirements))
      versions == getAvailableVersions(packageName)
  IN IF intersection # NoVersion THEN intersection
     ELSE IF ~versions.ok THEN NoVersion
     ELSE LET satisfyingVersions ==
                SelectSeq(versions.list, LAMBDA v : Satisfies(v, primaryRange))
          IN IF Len(satisfyingVersions) > 0
             THEN satisfyingVersions[Len(satisfyingVersions)]
             ELSE NoVersion

\* generateResolutionReasoning: the kind of sentence and the owners it names
generateResolutionReasoning(packageName, peerRange, conflictingRequirements) ==
  LET unsatisfied == SelectSeq(conflictingRequirements, LAMBDA req : ~req.satisfied) IN
  IF Len(conflictingRequirements) = 0
  THEN [kind |-> "install", package |-> packageName, owners |-> <<>>]
  ELSE IF Len(unsatisfied) = 0
  THEN [kind |-> "satisfiable", package |-> packageName, owners |-> <<>>]
  ELSE [kind |-> "conflicting", package |-> packageName,
        owners |-> [k \in 1..Len(unsatisfied) |-> unsatisfied[k].requiredBy]]

\* checkPeerDependencies recording a conflict whenever the declared version
\* fails the peer range, competing requirements or not
RecordsConflictOnVersionAlone(currentVersion, peerRange, conflictingRequirements) ==
  currentVersion # NoRange /\ ~versionSatisfiesRange(currentVersion, peerRange)

\* the condition of checkPeerDependencies under which a conflict is pushed
RecordsConflict(currentVersion, peerRange, conflictingRequirements) ==
  LET someUnsatisfied ==
        \E k \in 1..Len(conflictingRequirements) : ~conflictingRequirements[k].satisfied
      hasRealConflict ==
        /\ currentVersion # NoRange
        /\ ~versionSatisfiesRange(currentVersion, peerRange)
        /\ someUnsatisfied
  IN hasRealConflict \/ (Len(conflictingRequirements) > 0 /\ someUnsatisfied)

\* checkPeerDependencies
checkPeerDependencies(dependency, currentDeps) ==
  LET packageInfo == getPackageInfo(dependency.name, dependency.version)
      peerDeps == packageInfo.peerDependencies
      Reported(peerName) ==
        /\ peerDeps[peerName] # NoRange
        /\ RecordsConflict(currentDeps[peerName], peerDeps[peerName],
             findConflictingRequirements(peerName, peerDeps[peerName], currentDeps))
      names == SelectSeq(PackageOrder, Reported)
  IN IF ~packageInfo.ok THEN <<>>
     ELSE [k \in 1..Len(names) |->
            LET peerName == names[k]
                peerRange == peerDeps[peerName]
                reqs == findConflictingRequirements(peerName, peerRange, currentDeps)
            IN [packageName |-> peerName,
                requiredBy |-> <<dependency.name>>,
                currentVersion |-> getInstalledVersion(peerName),
                conflictingRequirements |-> reqs,
                resolutionStrategy |->
                  determineResolutionStrategy(peerName, peerRange, reqs),
                recommendedVersion |-> findBestVersion(peerName, peerRange, reqs),
                reasoning |-> generateResolutionReasoning(peerName, peerRange, reqs)]]

\* the loop of generateConflictResolution over conflicts[k..]
RECURSIVE ResolutionLoop(_, _, _)
ResolutionLoop(resolution, conflicts, k) ==
  IF k > Len(conflicts) THEN resolution
  ELSE LET conflict == conflicts[k]
           strategy == conflict.resolutionStrategy
           next ==
             IF strategy \in {"upgrade", "downgrade"}
             THEN IF conflict.recommendedVersion # NoVersion
                  THEN [resolution EXCEPT
                          !.dependencyUpdates[conflict.packageName] =
                             conflict.recommendedVersion]
                  ELSE resolution
             ELSE IF strategy = "overrides"
             THEN IF conflict.recommendedVersion # NoVersion
                  THEN [resolution EXCEPT
                          !.packageOverrides[conflict.packageName] =
                             conflict.recommendedVersion]
                  ELSE resolution
             ELSE [resolution EXCEPT
                     !.canAutoResolve = FALSE,
                     !.manualSteps = Append(@, conflict.reasoning)]
       IN ResolutionLoop(next, conflicts, k + 1)

\* generateConflictResolution
generateConflictResolution(conflicts, currentDeps) ==
  LET start == [conflicts |-> conflicts,
                packageOverrides |-> NoInstalled,
                dependencyUpdates |-> NoInstalled,
                warnings |-> <<>>,
                manualSteps |-> <<>>,
                canAutoResolve |-> TRUE]
      r == ResolutionLoop(start, conflicts, 1)
  IN IF \E p \in Packages : r.packageOverrides[p] # NoVersion
     THEN [r EXCEPT !.warnings = Append(@, "overrides-used")]
     ELSE r

RECURSIVE ConflictsOf(_, _, _)
ConflictsOf(targetDeps, allDeps, k) ==
  IF k > Len(targetDeps) THEN <<>>
  ELSE checkPeerDependencies(targetDeps[k], allDeps) \o
       ConflictsOf(targetDeps, allDeps, k + 1)

\* analyzePeerDependencyConflicts, package.json present
analyzePeerDependencyConflicts(migration) ==
  LET allDeps == manifest.deps
      conflicts == ConflictsOf(migration.dependencies, allDeps, 1)
  IN generateConflictResolution(conflicts, allDeps)

----------------------------------------------------------------------------
(* migration/dependencies.ts: applying a resolution, the dependency update *)

\* the result object of updateDependencies, lines 66-71; packageJsonBackup
\* is <<>> while no backup of package.json has been taken
FreshResult ==
  [success |-> TRUE, updated |-> <<>>, failed |-> <<>>, errors |-> <<>>,
   packageJsonBackup |-> <<>>]

\* updateDependencies, lines 75-77 (outside a dry run): createPackageJsonBackup
\* copies package.json when the caller asks for a backup
WithPackageJsonBackup(r, packageJson, backup) ==
  IF backup THEN [r EXCEPT !.packageJsonBackup = <<packageJson>>] ELSE r

\* the edits resolvePeerDependencyConflicts makes to the parsed package.json
ResolvedPackageJson(packageJson, resolution) ==
  LET withUpdates ==
        [packageJson EXCEPT !.deps =
           [p \in Packages |->
              IF resolution.dependencyUpdates[p] # NoVersion /\ packageJson.deps[p] # NoRange
              THEN Caret(resolution.dependencyUpdates[p])
              ELSE packageJson.deps[p]]]
      Merge(old) ==
        [p \in Packages |->
           IF resolution.packageOverrides[p] # NoVersion
           THEN resolution.packageOverrides[p] ELSE old[p]]
  IN IF pm = "npm" THEN [withUpdates EXCEPT !.overrides = Merge(@)]
     ELSE IF pm = "yarn" THEN [withUpdates EXCEPT !.resolutions = Merge(@)]
     ELSE withUpdates

\* isAngularPackageOutdated
isAngularPackageOutdated(currentVersion, targetVersion) ==
  currentVersion # NoRange /\ currentVersion[1] < targetVersion

\* the members of angularEcosystemPackages among the modelled packages
AngularEcosystemPackages == {"core", "material"}

\* updateAngularEcosystemPackages
updateAngularEcosystemPackages(deps, targetVersion) ==
  [p \in Packages |->
     IF p \in AngularEcosystemPackages /\ isAngularPackageOutdated(deps[p], targetVersion)
     THEN Caret(targetVersion)
     ELSE deps[p]]

RECURSIVE SetDeps(_, _, _)
SetDeps(deps, list, k) ==
  IF k > Len(list) THEN deps
  ELSE SetDeps([deps EXCEPT ![list[k].name] = list[k].version], list, k + 1)

\* the package.json that updatePackageJson computes
UpdatedPackageJson(packageJson, migration) ==
  [packageJson EXCEPT !.deps =
     updateAngularEcosystemPackages(SetDeps(@, migration.dependencies, 1), migration.to)]

\* node_modules after the install command has exited with status 0: what
\* package.json declares, or what was there before when the installer
\* silently skipped its work
InstalledAfter(packageJson, before, outcome) ==
  [p \in Packages |->
     IF outcome = "skipped" \/ packageJson.deps[p] = NoRange THEN before[p]
     ELSE Coerce(packageJson.deps[p])]

\* the messages verifyDependencies pushes, given node_modules
VerifyErrors(migration, nodeModules) ==
  LET missing == SelectSeq(migration.dependencies, LAMBDA d : nodeModules[d.name] = NoVersion)
  IN [k \in 1..Len(missing) |-> "was not installed correctly"]

\* a failed ng update command that leaves no record
NgUpdateFailedUnrecorded(r, command) == r

\* runNgUpdateCommands, lines 799-802: the catch block of one command
NgUpdateFailed(r, command) ==
  [r EXCEPT !.failed = Append(@, command),
            !.errors = Append(@, "Failed to run")]

\* an install that leaves no marker
InstallSucceededNoMarker(r) == r

\* installDependencies, its command having succeeded
InstallSucceeded(r) == [r EXCEPT !.updated = Append(@, "dependency installation")]

\* installDependencies, its command having failed
InstallFailed(r) ==
  [r EXCEPT !.failed = Append(@, "dependency installation"),
            !.errors = Append(@, "Failed to install dependencies")]

\* an install that is retried whatever the error
IsPeerDependencyErrorAlways(outcome) == TRUE

\* installDependenciesWithRetry, line 835: the error message names ERESOLVE
\* or a peer dep
IsPeerDependencyError(outcome) == outcome = "resolution"

\* the catch block of updateDependencies: the result it returns
UpdateCaught(r) ==
  [r EXCEPT !.success = FALSE,
            !.errors = @ \o <<"Dependency update failed">> \o
                       (IF r.packageJsonBackup # <<>>
                        THEN <<"Restored package.json from backup due to failure">>
                        ELSE <<>>)]

\* the catch block of updateDependencies, lines 103-110: package.json after
\* restorePackageJsonBackup, which runs only if a backup was taken
RestoredPackageJson(r, packageJson) ==
  IF r.packageJsonBackup # <<>> THEN r.packageJsonBackup[1] ELSE packageJson

----------------------------------------------------------------------------
(* migration/detector.ts *)

\* detectAngularVersion: 0 stands for null
detectAngularVersion(deps) == Coerce(deps["core"])

\* analyzeMigration; chainArgs = the arguments it passes to getMigrationChain
analyzeMigration(targetVersion) ==
  LET currentVersion == detectAngularVersion(manifest.deps)
      Invalid(id, severity, args) ==
        [isValid |-> FALSE, currentVersion |-> currentVersion,
         targetVersion |-> targetVersion, migrationPath |-> <<>>,
         issues |-> <<[id |-> id, severity |-> severity]>>, chainArgs |-> args]
  IN IF currentVersion = NoVersion
     THEN Invalid("no-angular-version", "error", <<>>)
     ELSE IF currentVersion = targetVersion
     THEN Invalid("same-version", "info", <<>>)
     ELSE IF currentVersion > targetVersion
     THEN Invalid("downgrade-not-supported", "error", <<>>)
     ELSE LET r == getMigrationChain(currentVersion, targetVersion) IN
          IF r.ok
          THEN [isValid |-> TRUE, currentVersion |-> currentVersion,
                targetVersion |-> targetVersion,
                migrationPath |-> [k \in 1..Len(r.chain) |-> r.chain[k].to],
                issues |-> <<>>,
                chainArgs |-> <<currentVersion, targetVersion>>]
          ELSE Invalid("no-migration-path", "error", <<currentVersion, targetVersion>>)

ChainCall(args, by) ==
  IF args = <<>> THEN {} ELSE {[from |-> args[1], to |-> args[2], by |-> by]}

----------------------------------------------------------------------------
(* migration/orchestrator.ts *)

Event(e, kind, outcome) == [e |-> e, step |-> idx, kind |-> kind, outcome |-> outcome]

MigrationOf(s) == ANGULAR_MIGRATIONS[<<s.from, s.to>>]

\* a step object numbered from 0
NewStepFromZero(stepNumber, migration) ==
  [stepNumber |-> stepNumber - 1, from |-> migration.from, to |-> migration.to,
   dependencies |-> <<>>, codeChanges |-> <<>>, issues |-> <<>>,
   success |-> TRUE, error |-> ""]

\* the step object executeMigrationStep starts from
NewStep(stepNumber, migration) ==
  [stepNumber |-> stepNumber, from |-> migration.from, to |-> migration.to,
   dependencies |-> <<>>, codeChanges |-> <<>>, issues |-> <<>>,
   success |-> TRUE, error |-> ""]

\* updateDependencies called with its own default, backup = true
BackupOptionDefault == TRUE

\* executeMigrationStep, line 222: the backup option it passes to
\* updateDependencies
BackupOption == FALSE

\* the event of a restore of package.json, if the catch block made one
RestoreEvents(r) ==
  IF r.packageJsonBackup # <<>> THEN <<Event("restore", "packageJson", "ok")>> ELSE <<>>

\* convertConflictsToIssues
convertConflictsToIssues(resolution, stepNumber) ==
  [k \in 1..Len(resolution.conflicts) |->
     LET conflict == resolution.conflicts[k] IN
     [id |-> "peer-conflict", package |-> conflict.packageName,
      severity |-> IF conflict.resolutionStrategy = "manual" THEN "error" ELSE "warning",
      category |-> "dependency",
      autoFixable |-> conflict.resolutionStrategy # "manual",
      migrationStep |-> stepNumber]]

\* the issues collected from the breaking changes of a migration
BreakingChangeIssues(migration, stepNumber) ==
  LET manual == SelectSeq(migration.breakingChanges, LAMBDA change : ~change.autoFixable)
  IN [k \in 1..Len(manual) |->
        [id |-> manual[k].id, package |-> "",
         severity |-> IF manual[k].impact = "high" THEN "error" ELSE "warning",
         category |-> "breaking-change",
         autoFixable |-> FALSE,
         migrationStep |-> stepNumber]]

\* executeMigrationStep after updateDependencies, with a failed update that
\* leaves no error text in the step
StepAfterDepsSilent(s, r, conflictResolution) ==
  LET s1 == [s EXCEPT !.dependencies = <<r>>]
      s2 == IF ~r.success THEN [s1 EXCEPT !.success = FALSE] ELSE s1
  IN IF conflictResolution # <<>> /\ Len(conflictResolution[1].conflicts) > 0
     THEN [s2 EXCEPT !.issues = @ \o convertConflictsToIssues(conflictResolution[1], s.stepNumber)]
     ELSE s2

\* executeMigrationStep after updateDependencies has returned r
StepAfterDeps(s, r, conflictResolution) ==
  LET s1 == [s EXCEPT !.dependencies = <<r>>]
      s2 == IF ~r.success
            THEN [s1 EXCEPT !.success = FALSE, !.error = "Dependency update failed"]
            ELSE s1
  IN IF conflictResolution # <<>> /\ Len(conflictResolution[1].conflicts) > 0
     THEN [s2 EXCEPT !.issues = @ \o convertConflictsToIssues(conflictResolution[1], s.stepNumber)]
     ELSE s2

\* a step that applies its plan whether it can be resolved automatically or
\* not
AppliesPlanAlways(conflictResolution) == TRUE

\* executeMigrationStep, line 199: the plan is handed to
\* resolvePeerDependencyConflicts
AppliesPlan(conflictResolution) == conflictResolution.canAutoResolve

\* a step that goes on whatever its conflicts
MustStopOnConflictsNever(o) == FALSE

\* executeMigrationStep, line 211: the plan is not auto-resolvable
MustStopOnConflicts(o) == ~o.allowPeerConflictOverrides

\* a loop that never stops at a failed step
ShouldStopNever(s, o) == FALSE

\* migrate, line 119
ShouldStop(s, o) == ~s.success /\ ~o.continueOnError

\* generateSummary without the test of autoFixable
ManualStepsOfAll(s) ==
  [k \in 1..Len(s.issues) |-> [to |-> s.to, id |-> s.issues[k].id, package |-> s.issues[k].package]]

\* the manual steps generateSummary collects from one step
ManualStepsOf(s) ==
  LET manual == SelectSeq(s.issues, LAMBDA issue : ~issue.autoFixable)
  IN [k \in 1..Len(manual) |-> [to |-> s.to, id |-> manual[k].id, package |-> manual[k].package]]

RECURSIVE SummaryLoop(_, _, _)
SummaryLoop(summary, list, k) ==
  IF k > Len(list) THEN summary
  ELSE LET s == list[k]
           deps == IF s.dependencies # <<>> /\ s.dependencies[1].success
                   THEN Len(s.dependencies[1].updated) ELSE 0
       IN SummaryLoop(
            [dependenciesUpdated |-> summary.dependenciesUpdated + deps,
             filesModified |-> summary.filesModified + Len(s.codeChanges),
             manualStepsRequired |-> summary.manualStepsRequired \o ManualStepsOf(s)],
            list, k + 1)

\* generateSummary
generateSummary(list) ==
  SummaryLoop([dependenciesUpdated |-> 0, filesModified |-> 0,
               manualStepsRequired |-> <<>>], list, 1)

----------------------------------------------------------------------------
(* Values shared by the initial states *)

NoOpts ==
  [dryRun |-> FALSE, skipDependencies |-> FALSE, skipCodeMods |-> FALSE,
   createBackup |-> TRUE, continueOnError |-> FALSE,
   runTestsAfterEachStep |-> FALSE, resolvePeerConflicts |-> TRUE,
   allowPeerConflictOverrides |-> FALSE, interactive |-> FALSE]

\* the variables of the orchestrator, at rest
Rest ==
  /\ opts = NoOpts
  /\ target = 0
  /\ analysis = <<>>
  /\ chain = <<>>
  /\ idx = 0
  /\ steps = <<>>
  /\ step = <<>>
  /\ plan = <<>>
  /\ depResult = <<>>
  /\ ngIdx = 0
  /\ success = TRUE
  /\ backupPath = "unset"
  /\ result = <<>>
  /\ trace = <<>>
  /\ chainCalls = {}
  /\ faults = 0

----------------------------------------------------------------------------
(* getMigrationChain applied on its own *)

InitChain ==
  /\ pc = "chain"
  /\ fnIn \in [from : MinArg..MaxArg, to : MinArg..MaxArg]
  /\ fnOut = <<>>
  /\ manifest = NoManifest
  /\ installed = NoInstalled
  /\ lockFile = FALSE
  /\ registry = NoRegistry
  /\ pm = "npm"
  /\ Rest

ApplyChain ==
  /\ pc = "chain"
  /\ fnOut' = <<getMigrationChain(fnIn.from, fnIn.to)>>
  /\ pc' = "chainDone"
  /\ UNCHANGED <<opts, target, manifest, installed, lockFile, registry, pm,
                 analysis, chain, idx, steps, step, plan, depResult, ngIdx,
                 success, backupPath, result, trace, chainCalls, faults, fnIn>>

NextChain == ApplyChain

SpecChain == InitChain /\ [][NextChain]_vars

----------------------------------------------------------------------------
(* The commands: migrate, analyze, check-conflicts *)

OptionNames == DOMAIN NoOpts

\* the options of a migrate call: the defaults of the command, one option
\* away from them, or a dry run with one more option away from them
OptionSets ==
  LET OneAway(o) == {[o EXCEPT ![f] = ~NoOpts[f]] : f \in OptionNames} IN
  {NoOpts} \cup OneAway(NoOpts) \cup OneAway([NoOpts EXCEPT !.dryRun = TRUE])

Targets == MinVersion..MaxVersion

\* what the registry can say about @angular/material
MaterialEntries ==
  {[ok |-> FALSE, peers |-> NoPeers],
   [ok |-> TRUE, peers |-> NoPeers],
   [ok |-> TRUE, peers |-> [NoPeers EXCEPT !["core"] = [kind |-> "tracks", range |-> NoRange]]]}

\* what the registry can say about the versions of @angular/core
CoreVersionLists ==
  {[ok |-> FALSE, list |-> <<>>],
   [ok |-> TRUE, list |-> <<17, 18, 19, 20>>]}

\* the registry and the package manager of a run; where the registry reports
\* no peer requirement, neither the package manager nor the version list is
\* consulted, and one representative is kept
Environments ==
  {e \in [material : MaterialEntries, versions : CoreVersionLists, pm : PackageManagers] :
     \/ e.material.ok /\ e.material.peers["core"].kind = "tracks"
     \/ e.pm = "npm" /\ e.versions.ok}

\* a project: package.json declares @angular/core and @angular/material at
\* the same major (or no Angular at all), node_modules agrees with it
Init ==
  /\ pc = "idle"
  /\ \E v \in {0} \cup ((MinVersion - 1)..MaxVersion) :
       manifest = [NoManifest EXCEPT !.deps =
                     [core |-> IF v = 0 THEN NoRange ELSE Caret(v),
                      material |-> IF v = 0 THEN NoRange ELSE Caret(v),
                      lib |-> NoRange]]
  /\ installed = [p \in Packages |-> Coerce(manifest.deps[p])]
  /\ lockFile = TRUE
  /\ \E e \in Environments :
       /\ registry = [info |-> [NoRegistry.info EXCEPT !["material"] = e.material],
                      versions |-> [NoRegistry.versions EXCEPT !["core"] = e.versions]]
       /\ pm = e.pm
  /\ fnIn = <<>>
  /\ fnOut = <<>>
  /\ Rest

Append1(e) == Append(trace, e)

\* migrate, line 81, without the test of isValid
MustRejectUndetectedOnly(a) == a.currentVersion = NoVersion

\* migrate, line 81: the analysis stops the run
MustReject(a) == ~a.isValid \/ a.currentVersion = NoVersion

\* migrate, lines 72-95: the analysis and the early return
Migrate(t, o) ==
  /\ pc = "idle"
  /\ target' = t
  /\ opts' = o
  /\ LET a == analyzeMigration(t) IN
     /\ analysis' = <<a>>
     /\ chainCalls' = chainCalls \cup ChainCall(a.chainArgs, "analyzeMigration")
     /\ IF MustReject(a)
        THEN /\ result' = <<[success |-> FALSE, fromVersion |-> a.currentVersion,
                             toVersion |-> t, steps |-> <<>>,
                             summary |-> generateSummary(<<>>),
                             backupPath |-> "undefined"]>>
             /\ pc' = "done"
        ELSE /\ result' = result
             /\ pc' = "backup"
  /\ UNCHANGED <<manifest, installed, lockFile, registry, pm, chain, idx, steps,
                 step, plan, depResult, ngIdx, success, backupPath, trace,
                 faults, fnIn, fnOut>>

\* migrate, line 98, with the backup never asked for
WantsBackupNever(o) == FALSE

\* migrate, line 98: options.createBackup !== false
WantsBackup(o) == o.createBackup

\* migrate, lines 97-111: createProjectBackup and getMigrationChain
CreateBackup ==
  /\ pc = "backup"
  /\ \/ /\ WantsBackup(opts)
        /\ \E ok \in BOOLEAN :
             /\ ok \/ faults < MaxFaults
             /\ faults' = IF ok THEN faults ELSE faults + 1
             /\ backupPath' = IF ok THEN "backupDir" ELSE ""
             /\ trace' = Append1(Event("backup", "", IF ok THEN "ok" ELSE "failed"))
     \/ /\ ~WantsBackup(opts)
        /\ backupPath' = "undefined"
        /\ UNCHANGED <<trace, faults>>
  /\ LET r == getMigrationChain(analysis[1].currentVersion, target) IN
     /\ chain' = r.chain
     /\ chainCalls' = chainCalls \cup
          ChainCall(<<analysis[1].currentVersion, target>>, "migrate")
  /\ steps' = <<>>
  /\ success' = TRUE
  /\ idx' = 1
  /\ pc' = "loop"
  /\ UNCHANGED <<opts, target, manifest, installed, lockFile, registry, pm,
                 analysis, step, plan, depResult, ngIdx, result, fnIn, fnOut>>

\* migrate, line 112, and executeMigrationStep, lines 168-184 (no migration
\* of the table declares pre-migration tasks)
LoopHead ==
  /\ pc = "loop"
  /\ IF idx <= Len(chain)
     THEN /\ step' = <<NewStep(idx, chain[idx])>>
          /\ pc' = "deps"
     ELSE /\ step' = step
          /\ pc' = "summary"
  /\ plan' = <<>>
  /\ depResult' = <<>>
  /\ ngIdx' = 0
  /\ UNCHANGED <<opts, target, manifest, installed, lockFile, registry, pm,
                 analysis, chain, idx, steps, success, backupPath, result,
                 trace, chainCalls, faults, fnIn, fnOut>>

\* executeMigrationStep, lines 187-218 up to the call that resolves
AnalyzeConflicts ==
  /\ pc = "deps"
  /\ IF opts.skipDependencies
     THEN /\ pc' = "codemods"
          /\ UNCHANGED <<plan, step, trace>>
     ELSE IF ~opts.resolvePeerConflicts
     THEN /\ pc' = "update"
          /\ UNCHANGED <<plan, step, trace>>
     ELSE LET conflictResolution == analyzePeerDependencyConflicts(MigrationOf(step[1])) IN
          /\ plan' = <<conflictResolution>>
          /\ trace' = Append1(Event("analyze", "", "ok"))
          /\ IF Len(conflictResolution.conflicts) > 0
             THEN IF AppliesPlan(conflictResolution)
                  THEN pc' = "resolve" /\ step' = step
                  ELSE IF MustStopOnConflicts(opts)
                  THEN /\ step' = <<[step[1] EXCEPT
                                      !.success = FALSE,
                                      !.error = "Peer dependency conflicts require manual resolution"]>>
                       /\ pc' = "return"
                  ELSE pc' = "update" /\ step' = step
             ELSE pc' = "update" /\ step' = step
  /\ UNCHANGED <<opts, target, manifest, installed, lockFile, registry, pm,
                 analysis, chain, idx, steps, depResult, ngIdx, success,
                 backupPath, result, chainCalls, faults, fnIn, fnOut>>

\* how a run of the install command can end: exit status 0 with the packages
\* installed ("ok") or silently not installed ("skipped"), or an error whose
\* message is of the dependency-resolution class (ERESOLVE, peer dep) or not
InstallOutcomes == {"ok", "skipped", "resolution", "other"}

Exit0(outcome) == outcome \in {"ok", "skipped"}

\* resolvePeerDependencyConflicts (the plan is auto-resolvable) and lines
\* 206-210 of executeMigrationStep
ResolveConflicts ==
  /\ pc = "resolve"
  /\ IF opts.dryRun
     THEN /\ pc' = "update"
          /\ UNCHANGED <<manifest, installed, lockFile, step, trace, faults>>
     ELSE /\ manifest' = ResolvedPackageJson(manifest, plan[1])
          /\ \E outcome \in InstallOutcomes :
               /\ outcome = "ok" \/ faults < MaxFaults
               /\ faults' = IF outcome = "ok" THEN faults ELSE faults + 1
               /\ trace' = trace \o <<Event("write", "resolution", "ok"),
                                      Event("install", "resolve", outcome)>>
               /\ IF Exit0(outcome)
                  THEN /\ installed' = InstalledAfter(manifest', installed, outcome)
                       /\ lockFile' = TRUE
                       /\ step' = step
                       /\ pc' = "update"
                  ELSE /\ UNCHANGED <<installed, lockFile>>
                       /\ step' = <<[step[1] EXCEPT
                                      !.success = FALSE,
                                      !.error = "Peer dependency resolution failed"]>>
                       /\ pc' = "return"
  /\ UNCHANGED <<opts, target, registry, pm, analysis, chain, idx, steps, plan,
                 depResult, ngIdx, success, backupPath, result, chainCalls,
                 fnIn, fnOut>>

\* updateDependencies, lines 64-85: the result object and updatePackageJson
UpdateManifest ==
  /\ pc = "update"
  /\ IF opts.dryRun
     THEN /\ depResult' = <<FreshResult>>
          /\ step' = <<StepAfterDeps(step[1], FreshResult, plan)>>
          /\ pc' = "codemods"
          /\ UNCHANGED <<manifest, trace, ngIdx>>
     ELSE /\ depResult' = <<WithPackageJsonBackup(FreshResult, manifest, BackupOption)>>
          /\ manifest' = UpdatedPackageJson(manifest, MigrationOf(step[1]))
          /\ trace' = Append1(Event("write", "update", "ok"))
          /\ ngIdx' = 1
          /\ step' = step
          /\ pc' = "ngUpdate"
  /\ UNCHANGED <<opts, target, installed, lockFile, registry, pm, analysis,
                 chain, idx, steps, plan, success, backupPath, result,
                 chainCalls, faults, fnIn, fnOut>>

\* runNgUpdateCommands: one command of the loop
NgUpdate ==
  /\ pc = "ngUpdate"
  /\ LET commands == MigrationOf(step[1]).ngUpdateCommands IN
     /\ \E ok \in BOOLEAN :
          /\ ok \/ faults < MaxFaults
          /\ faults' = IF ok THEN faults ELSE faults + 1
          /\ trace' = Append1(Event("ngUpdate", commands[ngIdx], IF ok THEN "ok" ELSE "failed"))
          /\ depResult' =
               IF ok
               THEN <<[depResult[1] EXCEPT !.updated = Append(@, commands[ngIdx])]>>
               ELSE <<NgUpdateFailed(depResult[1], commands[ngIdx])>>
     /\ ngIdx' = ngIdx + 1
     /\ pc' = IF ngIdx = Len(commands) THEN "install" ELSE "ngUpdate"
  /\ UNCHANGED <<opts, target, manifest, installed, lockFile, registry, pm,
                 analysis, chain, idx, steps, step, plan, success, backupPath,
                 result, chainCalls, fnIn, fnOut>>

\* installDependenciesWithRetry: the first installDependencies, then
\* verifyDependencies or the catch blocks, and lines 225-233 of
\* executeMigrationStep when updateDependencies returns
Install ==
  /\ pc = "install"
  /\ \E outcome \in InstallOutcomes :
       /\ outcome = "ok" \/ faults < MaxFaults
       /\ faults' = IF outcome = "ok" THEN faults ELSE faults + 1
       /\ IF Exit0(outcome)
          THEN /\ installed' = InstalledAfter(manifest, installed, outcome)
               /\ lockFile' = TRUE
               /\ LET r == InstallSucceeded(depResult[1])
                      verified == [r EXCEPT !.errors =
                                     @ \o VerifyErrors(MigrationOf(step[1]), installed')]
                  IN /\ depResult' = <<verified>>
                     /\ step' = <<StepAfterDeps(step[1], verified, plan)>>
               /\ trace' = Append1(Event("install", "update", outcome))
               /\ pc' = "codemods"
               /\ UNCHANGED manifest
          ELSE IF IsPeerDependencyError(outcome)
          THEN /\ depResult' = <<InstallFailed(depResult[1])>>
               /\ trace' = Append1(Event("install", "update", outcome))
               /\ pc' = "purge"
               /\ UNCHANGED <<manifest, installed, lockFile, step>>
          ELSE /\ LET r == UpdateCaught(InstallFailed(depResult[1])) IN
                  /\ depResult' = <<r>>
                  /\ step' = <<StepAfterDeps(step[1], r, plan)>>
                  /\ manifest' = RestoredPackageJson(r, manifest)
                  /\ trace' = Append1(Event("install", "update", outcome)) \o RestoreEvents(r)
               /\ pc' = "codemods"
               /\ UNCHANGED <<installed, lockFile>>
  /\ UNCHANGED <<opts, target, registry, pm, analysis, chain, idx,
                 steps, plan, ngIdx, success, backupPath, result, chainCalls,
                 fnIn, fnOut>>

\* cleanNodeModules
CleanNodeModules ==
  /\ pc = "purge"
  /\ installed' = NoInstalled
  /\ lockFile' = FALSE
  /\ trace' = Append1(Event("purge", "", "ok"))
  /\ pc' = "retry"
  /\ UNCHANGED <<opts, target, manifest, registry, pm, analysis, chain, idx,
                 steps, step, plan, depResult, ngIdx, success, backupPath,
                 result, chainCalls, faults, fnIn, fnOut>>

\* installDependenciesWithRetry: the retried installDependencies
RetryInstall ==
  /\ pc = "retry"
  /\ \E outcome \in InstallOutcomes :
       /\ outcome = "ok" \/ faults < MaxFaults
       /\ faults' = IF outcome = "ok" THEN faults ELSE faults + 1
       /\ IF Exit0(outcome)
          THEN /\ installed' = InstalledAfter(manifest, installed, outcome)
               /\ lockFile' = TRUE
               /\ LET r == InstallSucceeded(depResult[1])
                      verified == [r EXCEPT !.errors =
                                     @ \o VerifyErrors(MigrationOf(step[1]), installed')]
                  IN /\ depResult' = <<verified>>
                     /\ step' = <<StepAfterDeps(step[1], verified, plan)>>
               /\ trace' = Append1(Event("install", "retry", outcome))
               /\ UNCHANGED manifest
          ELSE /\ LET failed == InstallFailed(depResult[1])
                      r == UpdateCaught([failed EXCEPT !.errors =
                                           Append(@, "Clean install also failed")])
                  IN /\ depResult' = <<r>>
                     /\ step' = <<StepAfterDeps(step[1], r, plan)>>
                     /\ manifest' = RestoredPackageJson(r, manifest)
                     /\ trace' = Append1(Event("install", "retry", outcome)) \o RestoreEvents(r)
               /\ UNCHANGED <<installed, lockFile>>
  /\ pc' = "codemods"
  /\ UNCHANGED <<opts, target, registry, pm, analysis, chain, idx,
                 steps, plan, ngIdx, success, backupPath, result, chainCalls,
                 fnIn, fnOut>>

\* executeMigrationStep, line 237, without the test of step.success
RunsCodemodsAfterFailure(s, o) == ~o.skipCodeMods

\* executeMigrationStep, line 237: the code transformation runs
RunsCodemods(s, o) == ~o.skipCodeMods /\ s.success

\* executeMigrationStep, lines 236-268: applyCodemods, the breaking-change
\* issues, the catch block (no migration of the table declares
\* post-migration tasks)
ApplyCodemods ==
  /\ pc = "codemods"
  /\ IF RunsCodemods(step[1], opts)
     THEN \E ok \in BOOLEAN :
            /\ ok \/ faults < MaxFaults
            /\ faults' = IF ok THEN faults ELSE faults + 1
            /\ trace' = Append1(Event("codemods", IF opts.dryRun THEN "dryRun" ELSE "write",
                                      IF ok THEN "ok" ELSE "threw"))
            /\ step' =
                 IF ok
                 THEN <<[step[1] EXCEPT
                          !.codeChanges = <<"changes">>,
                          !.issues = BreakingChangeIssues(MigrationOf(step[1]), step[1].stepNumber)]>>
                 ELSE <<[step[1] EXCEPT !.success = FALSE, !.error = "exception"]>>
     ELSE /\ step' = <<[step[1] EXCEPT
                         !.issues = BreakingChangeIssues(MigrationOf(step[1]), step[1].stepNumber)]>>
          /\ UNCHANGED <<trace, faults>>
  /\ pc' = "return"
  /\ UNCHANGED <<opts, target, manifest, installed, lockFile, registry, pm,
                 analysis, chain, idx, steps, plan, depResult, ngIdx, success,
                 backupPath, result, chainCalls, fnIn, fnOut>>

\* migrate, line 125, without the test of dryRun
RunsTestsInDryRun(o) == o.runTestsAfterEachStep

\* migrate, line 125: tests run after the step
RunsTests(o) == o.runTestsAfterEachStep /\ ~o.dryRun

\* migrate, lines 117-127: the step has returned
\* the loop of migrate with an index that stays where it is
NextIndexStuck(i) == i

\* migrate, line 111: i++
NextIndex(i) == i + 1

StepReturned ==
  /\ pc = "return"
  /\ steps' = Append(steps, step[1])
  /\ IF ShouldStop(step[1], opts)
     THEN /\ success' = FALSE
          /\ idx' = idx
          /\ pc' = "summary"
     ELSE /\ success' = success
          /\ IF RunsTests(opts)
             THEN idx' = idx /\ pc' = "tests"
             ELSE idx' = NextIndex(idx) /\ pc' = "loop"
  /\ UNCHANGED <<opts, target, manifest, installed, lockFile, registry, pm,
                 analysis, chain, step, plan, depResult, ngIdx, backupPath,
                 result, trace, chainCalls, faults, fnIn, fnOut>>

\* runTests
RunTests ==
  /\ pc = "tests"
  /\ \E ok \in BOOLEAN :
       /\ ok \/ faults < MaxFaults
       /\ faults' = IF ok THEN faults ELSE faults + 1
       /\ trace' = Append1(Event("tests", "", IF ok THEN "ok" ELSE "failed"))
  /\ idx' = NextIndex(idx)
  /\ pc' = "loop"
  /\ UNCHANGED <<opts, target, manifest, installed, lockFile, registry, pm,
                 analysis, chain, steps, step, plan, depResult, ngIdx, success,
                 backupPath, result, chainCalls, fnIn, fnOut>>

\* migrate, lines 130-144: generateSummary, the result, printMigrationSummary
Summarize ==
  /\ pc = "summary"
  /\ LET summary == generateSummary(steps) IN
     /\ result' = <<[success |-> success, fromVersion |-> analysis[1].currentVersion,
                     toVersion |-> target, steps |-> steps, summary |-> summary,
                     backupPath |-> backupPath]>>
     /\ trace' = IF /\ Len(summary.manualStepsRequired) > 0
                    /\ opts.interactive /\ ~opts.dryRun /\ success
                 THEN Append1(Event("optionalSteps", "", "ok"))
                 ELSE trace
  /\ pc' = "done"
  /\ UNCHANGED <<opts, target, manifest, installed, lockFile, registry, pm,
                 analysis, chain, idx, steps, step, plan, depResult, ngIdx,
                 success, backupPath, chainCalls, faults, fnIn, fnOut>>

\* MigrationOrchestrator.analyze
Analyze(t) ==
  /\ pc = "idle"
  /\ target' = t
  /\ LET a == analyzeMigration(t) IN
     /\ analysis' = <<a>>
     /\ chainCalls' = chainCalls \cup ChainCall(a.chainArgs, "analyzeMigration")
  /\ pc' = "analyzed"
  /\ UNCHANGED <<opts, manifest, installed, lockFile, registry, pm, chain, idx,
                 steps, step, plan, depResult, ngIdx, success, backupPath,
                 result, trace, faults, fnIn, fnOut>>

RECURSIVE PlansOf(_, _)
PlansOf(list, k) ==
  IF k > Len(list) THEN <<>>
  ELSE <<analyzePeerDependencyConflicts(list[k])>> \o PlansOf(list, k + 1)

\* the check-conflicts command of cli.ts: its resolution runs with
\* dryRun = true and writes nothing
CheckConflicts(t) ==
  /\ pc = "idle"
  /\ target' = t
  /\ LET currentAngularVersion == detectAngularVersion(manifest.deps) IN
     IF currentAngularVersion = NoVersion
     THEN /\ pc' = "exited"
          /\ UNCHANGED <<chain, chainCalls, fnOut>>
     ELSE LET r == getMigrationChain(currentAngularVersion, t) IN
          /\ chainCalls' = chainCalls \cup
               ChainCall(<<currentAngularVersion, t>>, "check-conflicts")
          /\ chain' = r.chain
          /\ IF r.ok
             THEN fnOut' = PlansOf(r.chain, 1) /\ pc' = "checked"
             ELSE fnOut' = fnOut /\ pc' = "exited"
  /\ UNCHANGED <<opts, manifest, installed, lockFile, registry, pm, analysis,
                 idx, steps, step, plan, depResult, ngIdx, success, backupPath,
                 result, trace, faults, fnIn>>

Next ==
  \/ \E t \in Targets, o \in OptionSets : Migrate(t, o)
  \/ CreateBackup
  \/ LoopHead
  \/ AnalyzeConflicts
  \/ ResolveConflicts
  \/ UpdateManifest
  \/ NgUpdate
  \/ Install
  \/ CleanNodeModules
  \/ RetryInstall
  \/ ApplyCodemods
  \/ StepReturned
  \/ RunTests
  \/ Summarize
  \/ \E t \in Targets : Analyze(t)
  \/ \E t \in Targets : CheckConflicts(t)

Spec == Init /\ [][Next]_vars

----------------------------------------------------------------------------
(* Claims about the run *)

\* the positions of the trace that hold an event of step n
EventsOf(n) == {i \in 1..Len(trace) : trace[i].step = n /\ n > 0}

InstallsOf(n) == {i \in EventsOf(n) : trace[i].e = "install"}

WritesOf(n) == {i \in EventsOf(n) : trace[i].e = "write"}

\* the steps that have returned, and the one that is running
Returned == 1..Len(steps)

StepAt(n) == IF n \in Returned THEN steps[n] ELSE step[1]

\* a step has returned to migrate or is about to
Finished(n) == n \in Returned \/ (pc = "return" /\ step # <<>> /\ step[1].stepNumber = n)

FinishedSteps == {n \in 1..Len(chain) : Finished(n)}

\* the run went through the step loop of migrate
LoopRan == pc = "done" /\ result # <<>> /\ analysis[1].isValid

\* claim C1: the success flag of the result of a run that went through the
\* step loop is true exactly when no executed step has success = false,
\* whatever continueOnError is.
C1_SuccessIffNoFailedStep ==
  LoopRan =>
    (result[1].success <=>
       \A k \in 1..Len(result[1].steps) : result[1].steps[k].success)

\* claim C2: without continueOnError a step that returns success = false
\* is the last entry of the step list, the loop is left, and nothing of a
\* later step is ever started.
C2_StopsAtFirstFailure ==
  ~opts.continueOnError =>
    \A k \in Returned :
      ~steps[k].success =>
        /\ k = Len(steps)
        /\ pc \in {"summary", "done"}
        /\ step[1].stepNumber = k
        /\ \A i \in 1..Len(trace) : trace[i].step <= k
        /\ pc = "done" => /\ result[1].steps = steps
                          /\ ~result[1].success

C2_Witness ==
  /\ pc = "done"
  /\ ~opts.continueOnError
  /\ Len(chain) >= 2
  /\ Len(result[1].steps) = 1
  /\ ~result[1].steps[1].success

\* claim C4: no operation that builds a chain from the detected version
\* invokes getMigrationChain with from >= to.
C4_ChainOnlyForward == \A c \in chainCalls : c.from < c.to

\* claim C5: in a finished step every install invocation that failed with
\* a resolution-class error, other than the clean retry itself, is followed
\* by the purge and then by exactly one retried install; a failed retry is
\* followed by no further install.
C5_OneRecoveryCycle ==
  \A n \in FinishedSteps :
    \A i \in InstallsOf(n) :
      /\ (trace[i].kind # "retry" /\ trace[i].outcome = "resolution") =>
           /\ i + 2 <= Len(trace)
           /\ trace[i + 1].e = "purge" /\ trace[i + 1].step = n
           /\ trace[i + 2].e = "install" /\ trace[i + 2].kind = "retry"
           /\ trace[i + 2].step = n
           /\ Cardinality({j \in InstallsOf(n) : j > i}) = 1
      /\ (trace[i].kind = "retry" /\ ~Exit0(trace[i].outcome)) =>
           /\ {j \in InstallsOf(n) : j > i} = {}
           /\ ~StepAt(n).success

\* claim C6: an install failure that is not of the resolution class is
\* followed in its step by no purge and no install; the step is marked
\* success = false, and when the failure is that of the dependency update,
\* the update made this single attempt and returned success = false.
C6_OtherFailureNotRetried ==
  \A i \in 1..Len(trace) :
    (trace[i].e = "install" /\ trace[i].outcome = "other") =>
      LET n == trace[i].step IN
      /\ \A j \in EventsOf(n) : j > i => trace[j].e \notin {"purge", "install"}
      /\ Finished(n) =>
           /\ ~StepAt(n).success
           /\ trace[i].kind = "update" =>
                /\ StepAt(n).dependencies # <<>>
                /\ ~StepAt(n).dependencies[1].success
                /\ {j \in InstallsOf(n) : trace[j].kind # "resolve"} = {i}

C6_Witness ==
  /\ pc = "done"
  /\ Len(steps) >= 1
  /\ \E i \in InstallsOf(1) : trace[i].kind = "update" /\ trace[i].outcome = "other"
  /\ ~steps[1].success

\* the first install of the dependency update of step n failed with a
\* resolution-class error and the clean retry succeeded
RetrySucceeded(n) ==
  \E i \in InstallsOf(n) :
    /\ trace[i].kind = "update" /\ trace[i].outcome = "resolution"
    /\ i + 2 \in InstallsOf(n)
    /\ trace[i + 2].kind = "retry" /\ Exit0(trace[i + 2].outcome)

CodemodsThrew(n) ==
  \E i \in EventsOf(n) : trace[i].e = "codemods" /\ trace[i].outcome = "threw"

C8_VerifiedPackagesReported ==
  (pc = "return" /\ step[1].dependencies # <<>>
     /\ \E i \in InstallsOf(step[1].stepNumber) :
          trace[i].kind # "resolve" /\ Exit0(trace[i].outcome)) =>
    \A k \in 1..Len(MigrationOf(step[1]).dependencies) :
      LET d == MigrationOf(step[1]).dependencies[k] IN
      ~Satisfies(installed[d.name], d.version) =>
        \E j \in 1..Len(step[1].issues) :
          /\ step[1].issues[j].severity = "error"
          /\ step[1].issues[j].package = d.name

\* claim C9: in a finished step whose install invocations all succeeded
\* (and that made one), the install command ran exactly once, after every
\* manifest write of the step.
C9_InstallOnceAfterEdits ==
  \A n \in FinishedSteps :
    (InstallsOf(n) # {} /\ \A i \in InstallsOf(n) : trace[i].outcome = "ok") =>
      /\ Cardinality(InstallsOf(n)) = 1
      /\ \A i \in InstallsOf(n), w \in WritesOf(n) : w < i

\* the conflict analysis of the running step made a lookup that failed
StepLookupFailed ==
  \E i \in 1..Len(MigrationOf(step[1]).dependencies) :
    LET d == MigrationOf(step[1]).dependencies[i] IN
    ~getPackageInfo(d.name, d.version).ok

\* claim C17: when a lookup of a step's conflict analysis has failed, the
\* returned step shows it: the plan has a warning for it (its only other
\* warning being that overrides are used), or the step has an issue for it
\* (its other issues being those of breaking changes and of conflicts).
C17_FailedLookupSurfaced ==
  (pc = "return" /\ plan # <<>> /\ StepLookupFailed) =>
    \/ \E k \in 1..Len(plan[1].warnings) : plan[1].warnings[k] # "overrides-used"
    \/ \E j \in 1..Len(step[1].issues) :
         /\ step[1].issues[j].category # "breaking-change"
         /\ step[1].issues[j].id # "peer-conflict"

\* step k of the run failed at line 214: its conflicts need manual resolution
FailedOnManualConflict(k) ==
  /\ ~steps[k].success
  /\ steps[k].error = "Peer dependency conflicts require manual resolution"

\* claim C18: when a step fails because its plan holds a manual conflict
\* (continuation not allowed, continueOnError not set), the run ends with
\* success = false, the step is the last one attempted, and the summary's
\* manualStepsRequired holds an entry for the conflict of that step.
C18_ManualConflictHaltsAndReports ==
  (LoopRan /\ ~opts.continueOnError) =>
    \A k \in 1..Len(steps) :
      FailedOnManualConflict(k) =>
        /\ ~result[1].success
        /\ Len(result[1].steps) = k
        /\ \E m \in 1..Len(result[1].summary.manualStepsRequired) :
             /\ result[1].summary.manualStepsRequired[m].to = steps[k].to
             /\ result[1].summary.manualStepsRequired[m].id = "peer-conflict"

\* the plan of the running step holds conflicts, is not auto-resolvable, and
\* continuation is not allowed
Blocked ==
  /\ plan # <<>>
  /\ Len(plan[1].conflicts) > 0
  /\ ~plan[1].canAutoResolve
  /\ ~opts.allowPeerConflictOverrides

\* claim C19: a step whose plan blocks it has returned with success = false
\* and without dependencies or code changes; no manifest write, no install
\* and no transformation of that step has taken place.
C19_BlockedStepDoesNothing ==
  Blocked =>
    LET n == step[1].stepNumber IN
    /\ pc \in {"return", "tests", "loop", "summary", "done"}
    /\ ~step[1].success
    /\ step[1].dependencies = <<>>
    /\ step[1].codeChanges = <<>>
    /\ \A i \in EventsOf(n) : trace[i].e \in {"analyze", "tests"}
    /\ Finished(n) /\ ~StepAt(n).success

C19_Witness ==
  /\ Blocked
  /\ pc = "done"
  /\ ~opts.dryRun
  /\ Len(chain) >= 2
  /\ Len(steps) = 1
  /\ \E i \in EventsOf(1) : trace[i].e = "analyze"

\* claim C20: every step that has returned, whatever phase it failed in,
\* holds one issue for each breaking change of its migration that is not
\* auto-fixable, of severity error when the impact is high and warning
\* otherwise.
C20_BreakingChangesAlwaysReported ==
  \A k \in 1..Len(steps) :
    LET changes == MigrationOf(steps[k]).breakingChanges IN
    \A c \in 1..Len(changes) :
      ~changes[c].autoFixable =>
        \E j \in 1..Len(steps[k].issues) :
          /\ steps[k].issues[j].id = changes[c].id
          /\ steps[k].issues[j].severity =
               IF changes[c].impact = "high" THEN "error" ELSE "warning"

\* the issues a MigrationResult carries: those of its steps
IssuesOf(r) ==
  UNION {{[id |-> r.steps[k].issues[j].id, severity |-> r.steps[k].issues[j].severity] :
            j \in 1..Len(r.steps[k].issues)} : k \in 1..Len(r.steps)}

\* migrate was called with the version the project is at
SameVersionRun ==
  /\ pc = "done"
  /\ analysis[1].currentVersion # NoVersion
  /\ analysis[1].currentVersion = target

\* claim C22: when the target version equals the current version, migrate
\* returns a result with no step and success = false, makes no backup, and
\* the result reports the info issue "already at target version".
C22_SameVersionReported ==
  SameVersionRun =>
    /\ result[1].steps = <<>>
    /\ ~result[1].success
    /\ \A i \in 1..Len(trace) : trace[i].e # "backup"
    /\ [id |-> "same-version", severity |-> "info"] \in IssuesOf(result[1])

\* migrate was called with a target behind the version the project is at
DowngradeRun ==
  /\ pc = "done"
  /\ analysis[1].currentVersion # NoVersion
  /\ analysis[1].currentVersion > target

\* migrate was called with a target no chain of migrations leads to
NoChainRun ==
  /\ pc = "done"
  /\ analysis[1].currentVersion # NoVersion
  /\ analysis[1].currentVersion < target
  /\ ~getMigrationChain(analysis[1].currentVersion, target).ok

\* claim C23: if the target is behind the current version, or no chain
\* leads from the current version to the target, migrate returns
\* success = false with no step, and has made no backup, no write of the
\* manifest, no install, no task and no code transformation: the project is
\* as it was.
C23_RejectedRunDoesNothing ==
  (DowngradeRun \/ NoChainRun) =>
    /\ ~result[1].success
    /\ result[1].steps = <<>>
    /\ trace = <<>>
    /\ steps = <<>> /\ step = <<>>
    /\ manifest.deps["core"] = Caret(analysis[1].currentVersion)
    /\ manifest.deps["material"] = Caret(analysis[1].currentVersion)
    /\ manifest.overrides = NoManifest.overrides
    /\ installed = [p \in Packages |-> Coerce(manifest.deps[p])]
    /\ lockFile

C23_Witness == DowngradeRun /\ result[1].steps = <<>>

C23_WitnessNoChain == NoChainRun /\ result[1].steps = <<>>

\* createProjectBackup failed in this run
BackupFailed ==
  \E i \in 1..Len(trace) : trace[i].e = "backup" /\ trace[i].outcome = "failed"

\* claim C24: when the creation of the backup fails, the run still executes
\* its steps, the result has no backup path, and the result holds a warning
\* issue (not one of a breaking change or of a peer conflict) saying that
\* the run cannot be rolled back.
C24_BackupFailureReported ==
  (pc = "done" /\ BackupFailed) =>
    /\ Len(result[1].steps) >= 1
    /\ result[1].backupPath \in {"", "undefined"}
    /\ \E k \in 1..Len(result[1].steps) :
         \E j \in 1..Len(result[1].steps[k].issues) :
           LET issue == result[1].steps[k].issues[j] IN
           /\ issue.severity = "warning"
           /\ issue.category \notin {"breaking-change", "dependency"}

BackupsMade == {i \in 1..Len(trace) : trace[i].e = "backup"}

\* the run has started a step
StepStarted == pc \notin {"idle", "backup", "analyzed", "checked", "exited"} /\ step # <<>>

\* claim C25: in a run of migrate with createBackup not false that executes
\* at least one step, the backup of the project is attempted exactly once,
\* and it has ended, well or not, before the first write of the manifest,
\* install, task or code transformation of the first step.
C25_BackupOnceBeforeFirstStep ==
  (opts.createBackup /\ StepStarted) =>
    /\ Cardinality(BackupsMade) = 1
    /\ trace[1].e = "backup"
    /\ trace[1].outcome \in {"ok", "failed"}
    /\ \A i \in 2..Len(trace) : trace[i].step >= 1

C25_Witness ==
  /\ pc = "done"
  /\ opts.createBackup
  /\ Len(result[1].steps) >= 2
  /\ trace[1].e = "backup"
  /\ \E i \in WritesOf(1) : i > 1
  /\ \E i \in InstallsOf(2) : i > 1

\* the dependency update of step n ended in the catch block of
\* updateDependencies
UpdateFailed(n) ==
  /\ StepAt(n).dependencies # <<>>
  /\ ~StepAt(n).dependencies[1].success

\* claim C26: during migrate, whatever step fails and however it fails, no
\* restore from a backup is ever made, of the project or of package.json: a
\* dependency update that failed leaves package.json as it wrote it, and the
\* backup of the project is only named in the result.
C26_NoRestoreEver ==
  /\ \A i \in 1..Len(trace) : trace[i].e # "restore"
  /\ \A n \in FinishedSteps :
       UpdateFailed(n) =>
         /\ StepAt(n).dependencies[1].packageJsonBackup = <<>>
         /\ \A k \in 1..Len(StepAt(n).dependencies[1].errors) :
              StepAt(n).dependencies[1].errors[k] #
                "Restored package.json from backup due to failure"
  /\ (pc = "return" /\ UpdateFailed(step[1].stepNumber)) =>
       manifest.deps["core"] = Caret(step[1].to)
  /\ (pc = "done" /\ LoopRan) => result[1].backupPath = backupPath

C26_Witness ==
  /\ pc = "done"
  /\ LoopRan
  /\ Len(result[1].steps) = 1
  /\ ~result[1].success
  /\ UpdateFailed(1)
  /\ result[1].backupPath = "backupDir"
  /\ manifest.deps["core"] = Caret(result[1].steps[1].to)
  /\ manifest.deps["core"] # Caret(result[1].fromVersion)

\* package.json as the first step of a run finds it: the project of Init at
\* the detected version
ManifestAtStart ==
  [NoManifest EXCEPT !.deps =
     [core |-> Caret(analysis[1].currentVersion),
      material |-> Caret(analysis[1].currentVersion),
      lib |-> NoRange]]

\* claim C27: a step is atomic: when the first step of a run ends with
\* success = false, package.json is exactly what it was when the step
\* started; in particular a step whose install failed does not leave
\* package.json at the versions of the step's target.
C27_FailedStepLeavesManifest ==
  (pc = "return" /\ step[1].stepNumber = 1 /\ ~step[1].success) =>
    manifest = ManifestAtStart

\* claim C29: in a dry run migrate changes nothing of the project, whatever
\* the chain and the other options: no write of package.json, no ng update
\* command, no install, no purge of node_modules or of the lock file, no
\* test run and no write of a source file in any step; package.json,
\* node_modules and the lock file are as they were.
C29_DryRunChangesNothing ==
  opts.dryRun =>
    /\ \A i \in 1..Len(trace) :
         /\ trace[i].e \in {"backup", "analyze", "codemods"}
         /\ trace[i].e = "codemods" => trace[i].kind = "dryRun"
    /\ Coerce(manifest.deps["core"]) = analysis[1].currentVersion
    /\ manifest.deps["material"] = manifest.deps["core"]
    /\ manifest.deps["lib"] = NoRange
    /\ manifest.overrides = NoManifest.overrides
    /\ manifest.resolutions = NoManifest.resolutions
    /\ installed = [p \in Packages |-> Coerce(manifest.deps[p])]
    /\ lockFile

\* a dry run of two steps with tests asked for after each step
C29_Witness ==
  /\ pc = "done"
  /\ opts.dryRun
  /\ opts.runTestsAfterEachStep
  /\ Len(result[1].steps) >= 2
  /\ \E i \in 1..Len(trace) : trace[i].e = "codemods" /\ trace[i].step = 2

\* a dry run whose plan of the first step can be resolved automatically
C29_WitnessResolvable ==
  /\ pc = "done"
  /\ opts.dryRun
  /\ \E i \in 1..Len(trace) : trace[i].e = "analyze"
  /\ \E k \in 1..Len(result[1].steps) :
       \E j \in 1..Len(result[1].steps[k].issues) :
         result[1].steps[k].issues[j].id = "peer-conflict"

\* the errors a failed step can carry, by the path it failed on
FailurePaths ==
  {"Peer dependency resolution failed",
   "Peer dependency conflicts require manual resolution",
   "Dependency update failed",
   "exception"}

\* claim C32: every step with success = false in the result of a run, and
\* every such step on its way there, carries its stepNumber (its position in
\* the run) and a non-empty error text, whatever the path it failed on:
\* resolution failure, unresolved conflict, failed dependency update, or an
\* exception.
C32_FailedStepNamedAndExplained ==
  /\ \A n \in FinishedSteps :
       ~StepAt(n).success =>
         /\ StepAt(n).stepNumber = n
         /\ StepAt(n).error # ""
         /\ StepAt(n).error \in FailurePaths
  /\ (pc = "done" /\ LoopRan) =>
       \A k \in 1..Len(result[1].steps) :
         ~result[1].steps[k].success =>
           /\ result[1].steps[k].stepNumber = k
           /\ result[1].steps[k].error # ""

\* a run that went on after a failed dependency update and then met an
\* exception in the code transformation of a later step
C32_Witness ==
  /\ pc = "done"
  /\ LoopRan
  /\ \E k \in 1..Len(result[1].steps) :
       result[1].steps[k].error = "Dependency update failed"
  /\ \E k \in 1..Len(result[1].steps) :
       result[1].steps[k].error = "exception"

C32_WitnessResolution ==
  /\ pc = "done" /\ LoopRan
  /\ \E k \in 1..Len(result[1].steps) :
       result[1].steps[k].error = "Peer dependency resolution failed"

C32_WitnessManual ==
  /\ pc = "done" /\ LoopRan
  /\ \E k \in 1..Len(result[1].steps) :
       result[1].steps[k].error = "Peer dependency conflicts require manual resolution"

\* the issues of the result that are not auto-fixable, as <<step, issue>>
\* positions
ManualIssues ==
  UNION {{<<k, j>> : j \in {i \in 1..Len(result[1].steps[k].issues) :
                              ~result[1].steps[k].issues[i].autoFixable}} :
           k \in 1..Len(result[1].steps)}

\* the place of such an issue in step order, then issue order
RankOf(p) ==
  1 + Cardinality({q \in ManualIssues :
                     q[1] < p[1] \/ (q[1] = p[1] /\ q[2] < p[2])})

\* claim C33: manualStepsRequired holds exactly one entry for every issue
\* that is not auto-fixable of every executed step, in step order, each
\* labelled with the target version of its step, and no entry for an
\* auto-fixable issue or for a step that was not executed.
C33_ManualStepsExact ==
  (pc = "done" /\ LoopRan) =>
    LET manual == result[1].summary.manualStepsRequired IN
    /\ Len(manual) = Cardinality(ManualIssues)
    /\ \A p \in ManualIssues :
         LET s == result[1].steps[p[1]] IN
         manual[RankOf(p)] = [to |-> s.to, id |-> s.issues[p[2]].id,
                              package |-> s.issues[p[2]].package]
    /\ result[1].steps = steps

\* a result whose first step has manual steps and whose second step holds
\* an auto-fixable issue, which gets no entry
C33_Witness ==
  /\ pc = "done"
  /\ LoopRan
  /\ Len(result[1].steps) >= 2
  /\ Len(chain) > Len(result[1].steps)
  /\ \E p \in ManualIssues : p[1] = 1
  /\ \E j \in 1..Len(result[1].steps[2].issues) : result[1].steps[2].issues[j].autoFixable

\* a result with manual steps of two steps
C33_WitnessTwoSteps ==
  /\ pc = "done"
  /\ LoopRan
  /\ \E p, q \in ManualIssues : p[1] < q[1]

\* the phase of a step an event belongs to: 1 conflict analysis and
\* resolution, 2 manifest update and install, 3 code transformation, 4 what
\* migrate does after the step has returned
PhaseOf(ev) ==
  IF ev.e = "analyze" THEN 1
  ELSE IF ev.e = "write" /\ ev.kind = "resolution" THEN 1
  ELSE IF ev.e = "install" /\ ev.kind = "resolve" THEN 1
  ELSE IF ev.e \in {"write", "ngUpdate", "install", "purge", "restore"} THEN 2
  ELSE IF ev.e = "codemods" THEN 3
  ELSE 4

\* the event marks its step as failed
FailsStep(ev) ==
  /\ ev.e = "install"
  /\ \/ ev.kind \in {"resolve", "retry"} /\ ~Exit0(ev.outcome)
     \/ ev.kind = "update" /\ ev.outcome = "other"

\* the events the last action has added to the trace: an action adds at
\* most two, and every event was once among the latest
LatestEvents == {j \in 1..Len(trace) : j >= Len(trace) - 1}

\* claim C34: within a step the phases run one after the other in the order
\* conflict analysis and resolution, manifest update and install, code
\* transformation; the steps themselves run one after the other; and once
\* a step has been marked failed its code transformation is not run.
C34_PhasesInOrder ==
  \A j \in LatestEvents : \A i \in 1..(j - 1) :
    trace[i].step >= 1 =>
      /\ trace[i].step <= trace[j].step
      /\ trace[i].step = trace[j].step =>
           /\ PhaseOf(trace[i]) <= PhaseOf(trace[j])
           /\ (trace[j].e = "codemods") => ~FailsStep(trace[i])

\* a step that went through every phase, with a purge and a retry
C34_Witness ==
  \E n \in 1..Len(steps) :
    /\ \E i \in EventsOf(n) : trace[i].e = "analyze"
    /\ \E i \in EventsOf(n) : trace[i].e = "install" /\ trace[i].kind = "resolve"
    /\ \E i \in EventsOf(n) : trace[i].e = "ngUpdate"
    /\ \E i \in EventsOf(n) : trace[i].e = "purge"
    /\ \E i \in EventsOf(n) : trace[i].e = "install" /\ trace[i].kind = "retry"
    /\ \E i \in EventsOf(n) : trace[i].e = "codemods"

\* claim C35: when the conflict analysis of a step found conflicts and the
\* step went on to the dependency update, the returned step holds one
\* peer-conflict issue for each conflict, of severity error and not
\* auto-fixable when the conflict is manual, warning and auto-fixable
\* otherwise.
C35_ConflictIssuesKept ==
  (/\ pc = "return"
   /\ plan # <<>>
   /\ step[1].dependencies # <<>>) =>
    \A c \in 1..Len(plan[1].conflicts) :
      LET conflict == plan[1].conflicts[c]
          manual == conflict.resolutionStrategy = "manual"
      IN \E j \in 1..Len(step[1].issues) :
           /\ step[1].issues[j].id = "peer-conflict"
           /\ step[1].issues[j].package = conflict.packageName
           /\ step[1].issues[j].severity = IF manual THEN "error" ELSE "warning"
           /\ step[1].issues[j].autoFixable = ~manual

\* the running step has a plan that cannot be resolved automatically and
\* has gone past the conflict phase
PastManualPlan ==
  /\ pc \in {"update", "ngUpdate", "install", "purge", "retry", "codemods", "return"}
  /\ plan # <<>>
  /\ Len(plan[1].conflicts) > 0
  /\ ~plan[1].canAutoResolve

\* claim C37: with allowPeerConflictOverrides set, a step whose plan has
\* canAutoResolve = false goes on to the dependency update without applying
\* any entry of the plan: no override and no dependency update of the plan
\* is written to package.json, and no install is made for the plan.
C37_ManualPlanNotApplied ==
  (opts.allowPeerConflictOverrides /\ PastManualPlan) =>
    /\ \A i \in EventsOf(idx) :
         /\ ~(trace[i].e = "write" /\ trace[i].kind = "resolution")
         /\ ~(trace[i].e = "install" /\ trace[i].kind = "resolve")
    /\ manifest.overrides = NoManifest.overrides
    /\ manifest.resolutions = NoManifest.resolutions
    /\ step[1].error # "Peer dependency conflicts require manual resolution"
    /\ pc = "return" => step[1].dependencies # <<>>
    /\ (~opts.dryRun /\ pc \notin {"update", "return"}) =>
         manifest = UpdatedPackageJson(manifest, MigrationOf(step[1]))

C37_Witness ==
  /\ opts.allowPeerConflictOverrides
  /\ PastManualPlan
  /\ pc = "return"
  /\ step[1].success
  /\ \E i \in WritesOf(idx) : trace[i].kind = "update"

\* an ng update command of step n failed
NgUpdateFailedIn(n) ==
  \E i \in EventsOf(n) : trace[i].e = "ngUpdate" /\ trace[i].outcome = "failed"

\* the install of the dependency update of step n, or its retry, exited
\* with status 0
UpdateInstalled(n) ==
  \E i \in InstallsOf(n) : trace[i].kind \in {"update", "retry"} /\ Exit0(trace[i].outcome)

\* what a failed ng update command leaves behind in step n: its record in
\* failed and errors, the other commands and the install still run, and a
\* dependency outcome with success = true
NgUpdateFailureRecorded(n) ==
  LET r == StepAt(n).dependencies[1]
      commands == MigrationOf(StepAt(n)).ngUpdateCommands
  IN /\ \A i \in EventsOf(n) :
          (trace[i].e = "ngUpdate" /\ trace[i].outcome = "failed") =>
            \E k \in 1..Len(r.failed) : r.failed[k] = trace[i].kind
     /\ \E k \in 1..Len(r.errors) : r.errors[k] = "Failed to run"
     /\ \A c \in 1..Len(commands) :
          \E i \in EventsOf(n) : trace[i].e = "ngUpdate" /\ trace[i].kind = commands[c]
     /\ \A i \in EventsOf(n), j \in InstallsOf(n) :
          (trace[i].e = "ngUpdate" /\ trace[j].kind \in {"update", "retry"}) => i < j
     /\ r.success

C39_StepsArePrefixOfChain ==
  /\ Len(steps) <= Len(chain)
  /\ \A k \in 1..Len(steps) :
       /\ steps[k].stepNumber = k
       /\ steps[k].from = chain[k].from
       /\ steps[k].to = chain[k].to
       /\ \A l \in 1..Len(steps) :
            k # l => <<steps[k].from, steps[k].to>> # <<steps[l].from, steps[l].to>>
       /\ (~opts.continueOnError /\ ~steps[k].success) => k = Len(steps)
  /\ (pc = "done" /\ LoopRan) => result[1].steps = steps

\* a run of three steps that stopped at the failure of the third
C39_Witness ==
  /\ pc = "done"
  /\ LoopRan
  /\ ~opts.continueOnError
  /\ Len(chain) = 3
  /\ Len(result[1].steps) = 3
  /\ ~result[1].steps[3].success

\* a run of two steps that stopped at the first of three
C39_WitnessShort ==
  /\ pc = "done"
  /\ LoopRan
  /\ Len(chain) = 3
  /\ Len(result[1].steps) = 1

\* the pc values of a migrate invocation that has not returned yet
RunningPcs == {"backup", "loop", "deps", "resolve", "update", "ngUpdate",
               "install", "purge", "retry", "codemods", "return", "tests",
               "summary"}

\* the steps a run has started
Started == {n \in 1..(Len(steps) + 1) : n \in Returned \/ EventsOf(n) # {}}

InstallKinds == {"resolve", "update", "retry"}

\* the bounds of a run: at most to - from steps, at most one install of each
\* of the three kinds in a step, and the events of the steps follow each
\* other in the order of the steps, none started a second time
RunBounds ==
  (pc \in RunningPcs \cup {"done"} /\ pc # "backup" /\ analysis[1].isValid) =>
    /\ Len(steps) <= target - analysis[1].currentVersion
    /\ step # <<>> =>
         /\ step[1].stepNumber \in {Len(steps), Len(steps) + 1}
         /\ step[1].stepNumber <= target - analysis[1].currentVersion
    /\ \A n \in Started :
         /\ Cardinality(InstallsOf(n)) <= 3
         /\ \A i \in InstallsOf(n) : trace[i].kind \in InstallKinds
         /\ \A k \in InstallKinds :
              Cardinality({i \in InstallsOf(n) : trace[i].kind = k}) <= 1
         /\ Cardinality({i \in EventsOf(n) : trace[i].e = "analyze"}) <= 1
    /\ \A i \in 1..(Len(trace) - 1) : trace[i].step <= trace[i + 1].step

\* the steps of a run that follow an awaited call, the conflict analysis
\* apart
RunStep ==
  \/ CreateBackup
  \/ LoopHead
  \/ ResolveConflicts
  \/ UpdateManifest
  \/ NgUpdate
  \/ Install
  \/ CleanNodeModules
  \/ RetryInstall
  \/ ApplyCodemods
  \/ StepReturned
  \/ RunTests
  \/ Summarize

\* the conflict analysis of a step has returned: AnalyzeConflicts is enabled
\* exactly when pc = "deps" and is the one step that leaves that position
LeaveDeps == pc = "deps" /\ pc' \in {"codemods", "update", "resolve", "return"}

\* the run under the scheduling of the code: migrate awaits each call, and
\* each call returns, so a step of the run that can be taken is taken
SpecLive == Init /\ [][Next]_vars /\ WF_vars(RunStep) /\ WF_pc(LeaveDeps)

C40_WitnessAllSteps ==
  /\ pc = "done"
  /\ LoopRan
  /\ Len(result[1].steps) = target - analysis[1].currentVersion
  /\ Len(result[1].steps) = 3

----------------------------------------------------------------------------
(* getMigrationChain applied on its own: the claim *)

\* claim C3: for from < to with every adjacency defined, getMigrationChain
\* returns exactly to-from steps, the k-th being (from+k-1 -> from+k);
\* with an adjacency missing it throws, naming a missing adjacency of the
\* requested path, and returns no chain.
C3_ChainExact ==
  (pc = "chainDone" /\ fnIn.from < fnIn.to) =>
    LET r == fnOut[1]
        allDefined ==
          \A v \in (fnIn.from + 1)..fnIn.to : <<v - 1, v>> \in DOMAIN ANGULAR_MIGRATIONS
    IN IF allDefined
       THEN /\ r.ok
            /\ Len(r.chain) = fnIn.to - fnIn.from
            /\ \A k \in 1..Len(r.chain) :
                 /\ r.chain[k].from = fnIn.from + k - 1
                 /\ r.chain[k].to = fnIn.from + k
       ELSE /\ ~r.ok
            /\ r.chain = <<>>
            /\ r.missing \notin DOMAIN ANGULAR_MIGRATIONS
            /\ r.missing[2] = r.missing[1] + 1
            /\ fnIn.from <= r.missing[1]
            /\ r.missing[2] <= fnIn.to
            /\ \A v \in (fnIn.from + 1)..r.missing[1] :
                 <<v - 1, v>> \in DOMAIN ANGULAR_MIGRATIONS

C3_Witness ==
  /\ pc = "chainDone"
  /\ fnIn.from = MinVersion
  /\ fnIn.to = MaxVersion
  /\ fnOut[1].ok
  /\ Len(fnOut[1].chain) = 3

C3_WitnessMissing ==
  /\ pc = "chainDone"
  /\ fnIn.from = 19
  /\ fnIn.to = 22
  /\ fnOut[1].missing = <<20, 21>>

----------------------------------------------------------------------------
(* analyzePeerDependencyConflicts applied on its own *)

PeerVersions == MinVersion..MaxPeerVer

Ranges ==
  {r \in {Range(lo, hi) : lo \in PeerVersions, hi \in PeerVersions} : r[1] <= r[2]}

RECURSIVE Ascending(_)
Ascending(S) ==
  IF S = {} THEN <<>>
  ELSE LET m == CHOOSE x \in S : \A y \in S : x <= y
       IN <<m>> \o Ascending(S \ {m})

PeerSpecs ==
  {[kind |-> "none", range |-> NoRange], [kind |-> "tracks", range |-> NoRange]} \cup
  {[kind |-> "fixed", range |-> r] : r \in Ranges}

\* registry entries of a package whose only possible peer is @angular/core
InfoEntries ==
  {[ok |-> FALSE, peers |-> NoPeers]} \cup
  {[ok |-> TRUE, peers |-> [NoPeers EXCEPT !["core"] = s]] : s \in PeerSpecs}

VersionLists ==
  {[ok |-> FALSE, list |-> <<>>]} \cup
  {[ok |-> TRUE, list |-> Ascending(S)] : S \in SUBSET PeerVersions}

InitConflict ==
  /\ pc = "conflict"
  /\ fnIn = [from |-> 17, to |-> 18]
  /\ fnOut = <<>>
  /\ \E c \in Ranges \cup {NoRange}, m \in {NoRange, Caret(17)}, l \in {NoRange, Caret(17)} :
       manifest = [NoManifest EXCEPT !.deps = [core |-> c, material |-> m, lib |-> l]]
  /\ installed = [p \in Packages |-> Coerce(manifest.deps[p])]
  /\ lockFile = TRUE
  /\ \E ci \in {[ok |-> FALSE, peers |-> NoPeers], [ok |-> TRUE, peers |-> NoPeers]},
        mi \in InfoEntries, li \in InfoEntries, vl \in VersionLists :
       registry = [info |-> [core |-> ci, material |-> mi, lib |-> li],
                   versions |-> [NoRegistry.versions EXCEPT !["core"] = vl]]
  /\ pm \in PackageManagers
  /\ Rest

ApplyAnalyze ==
  /\ pc = "conflict"
  /\ plan' = <<analyzePeerDependencyConflicts(ANGULAR_MIGRATIONS[<<fnIn.from, fnIn.to>>])>>
  /\ pc' = "conflictDone"
  /\ UNCHANGED <<opts, target, manifest, installed, lockFile, registry, pm,
                 analysis, chain, idx, steps, step, depResult, ngIdx,
                 success, backupPath, result, trace, chainCalls, faults, fnIn, fnOut>>

NextConflict == ApplyAnalyze

SpecConflict == InitConflict /\ [][NextConflict]_vars

\* the target dependency of the analysed step that a conflict names
TargetDepOf(conflict) ==
  LET deps == ANGULAR_MIGRATIONS[<<fnIn.from, fnIn.to>>].dependencies
  IN deps[CHOOSE k \in 1..Len(deps) : deps[k].name = conflict.requiredBy[1]]

\* the primary range of a recorded conflict
PrimaryRangeOf(conflict) ==
  getPackageInfo(TargetDepOf(conflict).name, TargetDepOf(conflict).version)
    .peerDependencies[conflict.packageName]

SomeUnsatisfied(conflict) ==
  \E k \in 1..Len(conflict.conflictingRequirements) :
    ~conflict.conflictingRequirements[k].satisfied

\* claim C10: a conflict on a peer package is recorded only when the
\* declared version of the package fails the primary range and at least one
\* competing requirement is unsatisfied relative to the primary range.
C10_OnlyRealConflicts ==
  pc = "conflictDone" =>
    \A k \in 1..Len(plan[1].conflicts) :
      LET conflict == plan[1].conflicts[k] IN
      /\ ~versionSatisfiesRange(manifest.deps[conflict.packageName],
                                PrimaryRangeOf(conflict))
      /\ SomeUnsatisfied(conflict)

\* the part of claim C10 that the analysis keeps: every recorded conflict
\* has an unsatisfied competing requirement
C10_SomeUnsatisfied ==
  pc = "conflictDone" =>
    \A k \in 1..Len(plan[1].conflicts) : SomeUnsatisfied(plan[1].conflicts[k])

\* the versions of the registry's list for a package that satisfy every range
\* of a sequence of ranges; empty when the lookup fails
AvailableSatisfying(packageName, ranges) ==
  LET versions == getAvailableVersions(packageName) IN
  IF ~versions.ok THEN {}
  ELSE {versions.list[j] : j \in
          {i \in 1..Len(versions.list) :
             \A k \in 1..Len(ranges) : Satisfies(versions.list[i], ranges[k])}}

Highest(S) == CHOOSE v \in S : \A w \in S : w <= v

\* claim C12: for a recorded conflict no available version settles, under
\* npm or yarn the strategy is overrides and the plan holds an override entry
\* for the package, the highest available version satisfying the primary
\* range.
C12_OverrideEntryForEveryConflict ==
  (pc = "conflictDone" /\ pm \in {"npm", "yarn"}) =>
    \A k \in 1..Len(plan[1].conflicts) :
      LET conflict == plan[1].conflicts[k]
          primary == PrimaryRangeOf(conflict)
          common == AvailableSatisfying(conflict.packageName,
                      AllRanges(primary, conflict.conflictingRequirements))
          candidates == AvailableSatisfying(conflict.packageName, <<primary>>)
      IN common = {} =>
           /\ conflict.resolutionStrategy = "overrides"
           /\ plan[1].packageOverrides[conflict.packageName] # NoVersion
           /\ candidates # {} =>
                plan[1].packageOverrides[conflict.packageName] = Highest(candidates)

\* claim C14: canAutoResolve is false exactly when some conflict of the plan
\* has strategy manual; when it is true every upgrade or downgrade conflict
\* has an entry in dependencyUpdates and every overrides conflict has one in
\* packageOverrides.
C14_PlanCoversConflicts ==
  pc = "conflictDone" =>
    LET conflicts == plan[1].conflicts IN
    /\ ~plan[1].canAutoResolve <=>
         \E k \in 1..Len(conflicts) : conflicts[k].resolutionStrategy = "manual"
    /\ plan[1].canAutoResolve =>
         \A k \in 1..Len(conflicts) :
           /\ conflicts[k].resolutionStrategy \in {"upgrade", "downgrade"} =>
                plan[1].dependencyUpdates[conflicts[k].packageName] # NoVersion
           /\ conflicts[k].resolutionStrategy = "overrides" =>
                plan[1].packageOverrides[conflicts[k].packageName] # NoVersion

\* claim C36: every conflict that checkPeerDependencies records has a
\* competing range that does not intersect the primary range; hence no
\* available version satisfies all its ranges, its strategy is overrides or
\* manual, never upgrade or downgrade, and the plan's dependencyUpdates is
\* empty.
C36_RecordedConflictsHaveNoIntersection ==
  pc = "conflictDone" =>
    /\ \A k \in 1..Len(plan[1].conflicts) :
         LET conflict == plan[1].conflicts[k]
             primary == PrimaryRangeOf(conflict)
         IN /\ \E j \in 1..Len(conflict.conflictingRequirements) :
                 ~Intersects(primary, conflict.conflictingRequirements[j].version)
            /\ AvailableSatisfying(conflict.packageName,
                 AllRanges(primary, conflict.conflictingRequirements)) = {}
            /\ conflict.resolutionStrategy \in {"overrides", "manual"}
    /\ plan[1].dependencyUpdates = NoInstalled

\* a recorded conflict for which the registry lists versions inside the
\* primary range
C36_Witness ==
  /\ pc = "conflictDone"
  /\ \E k \in 1..Len(plan[1].conflicts) :
       LET conflict == plan[1].conflicts[k] IN
       /\ AvailableSatisfying(conflict.packageName, <<PrimaryRangeOf(conflict)>>) # {}
       /\ Len(conflict.conflictingRequirements) >= 2
       /\ \E j \in 1..Len(conflict.conflictingRequirements) :
            conflict.conflictingRequirements[j].satisfied

\* the target dependencies of the analysed step
TargetDeps == ANGULAR_MIGRATIONS[<<fnIn.from, fnIn.to>>].dependencies

\* a lookup the analysis makes has failed: that of a target dependency, or
\* that of a declared dependency asked for its competing requirements
TargetLookupFailed ==
  \E i \in 1..Len(TargetDeps) :
    ~getPackageInfo(TargetDeps[i].name, TargetDeps[i].version).ok

CurrentLookupFailed ==
  /\ \E i \in 1..Len(TargetDeps), p \in Packages :
       LET info == getPackageInfo(TargetDeps[i].name, TargetDeps[i].version)
       IN info.ok /\ info.peerDependencies[p] # NoRange
  /\ \E o \in Packages :
       manifest.deps[o] # NoRange /\ ~getPackageInfo(o, manifest.deps[o]).ok

\* claim C16: the analysis returns a plan whatever lookups fail, and the
\* plan holds the conflict of every target dependency whose lookup succeeds
\* with every declared dependency whose lookup succeeds and whose range for
\* the same peer is disjoint from the target's.
C16_LookupFailureNotFatal ==
  pc = "conflictDone" =>
    /\ Len(plan) = 1
    /\ \A i \in 1..Len(TargetDeps), p \in Packages, o \in Packages :
         LET d == TargetDeps[i]
             info == getPackageInfo(d.name, d.version)
             other == getPackageInfo(o, manifest.deps[o])
         IN (/\ info.ok
             /\ info.peerDependencies[p] # NoRange
             /\ manifest.deps[o] # NoRange
             /\ other.ok
             /\ other.peerDependencies[p] # NoRange
             /\ ~Intersects(info.peerDependencies[p], other.peerDependencies[p])) =>
              \E k \in 1..Len(plan[1].conflicts) :
                LET conflict == plan[1].conflicts[k] IN
                /\ conflict.packageName = p
                /\ conflict.requiredBy = <<d.name>>
                /\ \E j \in 1..Len(conflict.conflictingRequirements) :
                     /\ conflict.conflictingRequirements[j].requiredBy = o
                     /\ conflict.conflictingRequirements[j].version =
                          other.peerDependencies[p]
                     /\ ~conflict.conflictingRequirements[j].satisfied

C16_Witness ==
  /\ pc = "conflictDone"
  /\ TargetLookupFailed
  /\ CurrentLookupFailed
  /\ Len(plan[1].conflicts) > 0

----------------------------------------------------------------------------
(* resolvePeerDependencyConflicts applied to the plan, then a second analysis *)

\* resolvePeerDependencyConflicts(plan, dryRun = false) for a plan with
\* conflicts that is auto-resolvable: the edits, the write, the install
ApplyResolution ==
  /\ pc = "conflictDone"
  /\ Len(plan[1].conflicts) > 0
  /\ plan[1].canAutoResolve
  /\ manifest' = ResolvedPackageJson(manifest, plan[1])
  /\ \E outcome \in InstallOutcomes :
       /\ trace' = trace \o <<Event("write", "resolution", "ok"),
                              Event("install", "resolve", outcome)>>
       /\ depResult' = <<[FreshResult EXCEPT !.success = Exit0(outcome)]>>
       /\ IF Exit0(outcome)
          THEN /\ installed' = InstalledAfter(manifest', installed, outcome)
               /\ lockFile' = TRUE
          ELSE UNCHANGED <<installed, lockFile>>
  /\ pc' = "resolved"
  /\ UNCHANGED <<opts, target, registry, pm, analysis, chain, idx, steps, step,
                 plan, ngIdx, success, backupPath, result, chainCalls, faults,
                 fnIn, fnOut>>

\* analyzePeerDependencyConflicts for the same step, on the manifest as
\* resolved
Reanalyze ==
  /\ pc = "resolved"
  /\ fnOut' = <<analyzePeerDependencyConflicts(ANGULAR_MIGRATIONS[<<fnIn.from, fnIn.to>>])>>
  /\ pc' = "reanalyzed"
  /\ UNCHANGED <<opts, target, manifest, installed, lockFile, registry, pm,
                 analysis, chain, idx, steps, step, plan, depResult, ngIdx,
                 success, backupPath, result, trace, chainCalls, faults, fnIn>>

NextResolve == ApplyAnalyze \/ ApplyResolution \/ Reanalyze

SpecResolve == InitConflict /\ [][NextResolve]_vars

\* claim C15: once an auto-resolvable plan has been applied to the manifest,
\* the analysis of the same step on that manifest finds no conflict.
C15_ResolvedMeansNoConflict ==
  pc = "reanalyzed" => Len(fnOut[1].conflicts) = 0

----------------------------------------------------------------------------
(* determineResolutionStrategy and findBestVersion applied on their own *)

\* the competing requirements findConflictingRequirements can hand over for
\* a primary range: up to two owners, each with its range and the satisfied
\* flag of line 555
RequirementOf(owner, peerRange, otherRange) ==
  [requiredBy |-> owner, version |-> otherRange,
   satisfied |-> Intersects(peerRange, otherRange)]

RequirementLists(peerRange) ==
  {<<>>} \cup
  {<<RequirementOf("material", peerRange, r)>> : r \in Ranges} \cup
  {<<RequirementOf("material", peerRange, r1), RequirementOf("lib", peerRange, r2)>> :
     r1 \in Ranges, r2 \in Ranges}

InitStrategy ==
  /\ pc = "strategy"
  /\ \E peerRange \in Ranges :
       \E reqs \in RequirementLists(peerRange) :
         fnIn = [peerName |-> "core", peerRange |-> peerRange,
                 conflictingRequirements |-> reqs]
  /\ fnOut = <<>>
  /\ manifest = NoManifest
  /\ \E v \in {NoVersion} \cup PeerVersions :
       installed = [NoInstalled EXCEPT !["core"] = v]
  /\ lockFile = TRUE
  /\ \E vl \in VersionLists :
       registry = [NoRegistry EXCEPT !.versions["core"] = vl]
  /\ pm \in PackageManagers
  /\ Rest

\* the strategy, the recommended version and the current version of the
\* conflict object built at lines 347-354 of checkPeerDependencies
ApplyStrategy ==
  /\ pc = "strategy"
  /\ fnOut' = <<[currentVersion |-> getInstalledVersion(fnIn.peerName),
                 resolutionStrategy |->
                   determineResolutionStrategy(fnIn.peerName, fnIn.peerRange,
                                               fnIn.conflictingRequirements),
                 recommendedVersion |->
                   findBestVersion(fnIn.peerName, fnIn.peerRange,
                                   fnIn.conflictingRequirements)]>>
  /\ pc' = "strategyDone"
  /\ UNCHANGED <<opts, target, manifest, installed, lockFile, registry, pm,
                 analysis, chain, idx, steps, step, plan, depResult, ngIdx,
                 success, backupPath, result, trace, chainCalls, faults, fnIn>>

NextStrategy == ApplyStrategy

SpecStrategy == InitStrategy /\ [][NextStrategy]_vars

\* the available versions of the peer that satisfy the primary range and
\* every competing range
CommonVersions ==
  LET versions == getAvailableVersions(fnIn.peerName) IN
  IF ~versions.ok THEN {}
  ELSE {versions.list[k] : k \in
          {j \in 1..Len(versions.list) :
             /\ Satisfies(versions.list[j], fnIn.peerRange)
             /\ \A i \in 1..Len(fnIn.conflictingRequirements) :
                  Satisfies(versions.list[j], fnIn.conflictingRequirements[i].version)}}

\* claim C11: when the available-version list holds a version satisfying the
\* primary range and every competing range, the strategy of the conflict is
\* not manual, whatever the package manager.
C11_NeverManualWithCommonVersion ==
  (pc = "strategyDone" /\ CommonVersions # {}) =>
    fnOut[1].resolutionStrategy # "manual"

C11_Witness ==
  /\ pc = "strategyDone"
  /\ pm = "pnpm"
  /\ Len(fnIn.conflictingRequirements) = 2
  /\ CommonVersions # {}
  /\ fnOut[1].resolutionStrategy = "upgrade"

----------------------------------------------------------------------------
(* The tasks of a step: executeMigrationStep around a migration that
   declares pre- and post-migration tasks (no migration of the table does) *)

MaxTasks == 2

TaskOutcomes == {"ok", "failed"}

\* the task lists a migration can declare
TaskLists == {[i \in 1..n |-> "task"] : n \in 0..MaxTasks}

InitTasks ==
  /\ pc = "preTasks"
  /\ fnIn \in [preMigrationTasks : TaskLists, postMigrationTasks : TaskLists,
               dryRun : BOOLEAN]
  /\ fnOut = <<>>
  /\ manifest = NoManifest
  /\ installed = NoInstalled
  /\ lockFile = FALSE
  /\ registry = NoRegistry
  /\ pm = "npm"
  /\ opts = [NoOpts EXCEPT !.dryRun = fnIn.dryRun]
  /\ target = 18
  /\ analysis = <<>>
  /\ chain = <<ANGULAR_MIGRATIONS[<<17, 18>>]>>
  /\ idx = 1
  /\ steps = <<>>
  /\ step = <<NewStep(1, chain[1])>>
  /\ plan = <<>>
  /\ depResult = <<>>
  /\ ngIdx = 1
  /\ success = TRUE
  /\ backupPath = "undefined"
  /\ result = <<>>
  /\ trace = <<>>
  /\ chainCalls = {}
  /\ faults = 0

\* runTasks, the catch block with a throw in it
AfterTaskRethrow(s, outcome) ==
  IF outcome = "failed" THEN [s EXCEPT !.success = FALSE, !.error = "exception"] ELSE s

\* runTasks, lines 297-304: the step after one task; the catch block warns
\* and does not throw
AfterTask(s, outcome) == s

\* executeMigrationStep, lines 181-184, and runTasks: one pre-migration task
\* of the loop, or none when the list is empty or the run is a dry run
RunPreTask ==
  /\ pc = "preTasks"
  /\ IF Len(fnIn.preMigrationTasks) > 0 /\ ~opts.dryRun
     THEN \E outcome \in TaskOutcomes :
            LET s == AfterTask(step[1], outcome) IN
            /\ trace' = Append1(Event("task", "pre", outcome))
            /\ step' = <<s>>
            /\ IF ngIdx = Len(fnIn.preMigrationTasks)
               THEN ngIdx' = 1 /\ pc' = "body"
               ELSE ngIdx' = ngIdx + 1 /\ pc' = "preTasks"
     ELSE /\ pc' = "body"
          /\ UNCHANGED <<trace, step, ngIdx>>
  /\ UNCHANGED <<opts, target, manifest, installed, lockFile, registry, pm,
                 analysis, chain, idx, steps, plan, depResult, success,
                 backupPath, result, chainCalls, faults, fnIn, fnOut>>

\* executeMigrationStep, lines 187-240: the dependency update and the code
\* transformations, reduced to what they leave in step.success
StepBody ==
  /\ pc = "body"
  /\ \E ok \in BOOLEAN :
       /\ trace' = Append1(Event("body", "", IF ok THEN "ok" ELSE "failed"))
       /\ step' = <<[step[1] EXCEPT !.success = ok,
                                    !.error = IF ok THEN "" ELSE "Dependency update failed"]>>
  /\ pc' = "postTasks"
  /\ UNCHANGED <<opts, target, manifest, installed, lockFile, registry, pm,
                 analysis, chain, idx, steps, plan, depResult, ngIdx, success,
                 backupPath, result, chainCalls, faults, fnIn, fnOut>>

\* executeMigrationStep, lines 243-246, and runTasks: one post-migration task
RunPostTask ==
  /\ pc = "postTasks"
  /\ IF Len(fnIn.postMigrationTasks) > 0 /\ ~opts.dryRun /\ step[1].success
     THEN \E outcome \in TaskOutcomes :
            LET s == AfterTask(step[1], outcome) IN
            /\ trace' = Append1(Event("task", "post", outcome))
            /\ step' = <<s>>
            /\ IF ngIdx = Len(fnIn.postMigrationTasks)
               THEN ngIdx' = ngIdx /\ pc' = "tasksDone"
               ELSE ngIdx' = ngIdx + 1 /\ pc' = "postTasks"
     ELSE /\ pc' = "tasksDone"
          /\ UNCHANGED <<trace, step, ngIdx>>
  /\ UNCHANGED <<opts, target, manifest, installed, lockFile, registry, pm,
                 analysis, chain, idx, steps, plan, depResult, success,
                 backupPath, result, chainCalls, faults, fnIn, fnOut>>

NextTasks == RunPreTask \/ StepBody \/ RunPostTask

SpecTasks == InitTasks /\ [][NextTasks]_vars

\* the task events of a phase, in the trace
TasksRun(phase) == {i \in 1..Len(trace) : trace[i].e = "task" /\ trace[i].kind = phase}

BodyRuns == {i \in 1..Len(trace) : trace[i].e = "body"}

C29_DryRunRunsNoTask ==
  opts.dryRun => TasksRun("pre") \cup TasksRun("post") = {}

\* the part of claim C34 about tasks: the pre-migration tasks come before
\* the dependency update and the code transformation, the post-migration
\* tasks after them, and no post-migration task runs in a failed step
C34_TasksInOrder ==
  /\ \A i \in TasksRun("pre"), j \in BodyRuns : i < j
  /\ \A i \in BodyRuns, j \in TasksRun("post") : i < j /\ trace[i].outcome = "ok"
  /\ \A i \in TasksRun("pre"), j \in TasksRun("post") : i < j

----------------------------------------------------------------------------
(* migrate invoked again after a run that failed *)

\* a registry in which no package declares a peer requirement
FixedRegistry ==
  [info |-> [NoRegistry.info EXCEPT !["material"] = [ok |-> TRUE, peers |-> NoPeers]],
   versions |-> [NoRegistry.versions EXCEPT
                   !["core"] = [ok |-> TRUE, list |-> <<17, 18, 19, 20>>]]]

\* the first call of the command, with its default options
FirstMigrate ==
  /\ fnIn = <<>>
  /\ \E t \in Targets : Migrate(t, NoOpts)

\* between two invocations of the command: the run has failed at a step, its
\* result is kept in fnIn, what made the step fail is repaired (no command
\* fails any more, no package declares a conflicting peer requirement), and
\* the next invocation starts from a new orchestrator; the project stays as
\* the failed run left it
FixCause ==
  /\ pc = "done"
  /\ fnIn = <<>>
  /\ LoopRan
  /\ ~result[1].success
  /\ fnIn' = <<result[1]>>
  /\ registry' = FixedRegistry
  /\ faults' = MaxFaults
  /\ pc' = "idle"
  /\ analysis' = <<>>
  /\ chain' = <<>>
  /\ idx' = 0
  /\ steps' = <<>>
  /\ step' = <<>>
  /\ plan' = <<>>
  /\ depResult' = <<>>
  /\ ngIdx' = 0
  /\ success' = TRUE
  /\ backupPath' = "unset"
  /\ result' = <<>>
  /\ trace' = <<>>
  /\ chainCalls' = {}
  /\ UNCHANGED <<opts, target, manifest, installed, lockFile, pm, fnOut>>

\* the command invoked again with the same target and options
Remigrate ==
  /\ fnIn # <<>>
  /\ Migrate(target, opts)

NextRerun ==
  \/ FirstMigrate
  \/ FixCause
  \/ Remigrate
  \/ CreateBackup
  \/ LoopHead
  \/ AnalyzeConflicts
  \/ ResolveConflicts
  \/ UpdateManifest
  \/ NgUpdate
  \/ Install
  \/ CleanNodeModules
  \/ RetryInstall
  \/ ApplyCodemods
  \/ StepReturned
  \/ Summarize

SpecRerun == Init /\ [][NextRerun]_vars

\* the step at which the first run failed
FailedStep == fnIn[1].steps[Len(fnIn[1].steps)]

\* claim C28: when a step failed in a run and its cause is repaired, migrate
\* invoked again with the same target executes that step again, with the
\* same from and to versions, and records for it a step with success = true
\* and the stepNumber it had in the failed run.
C28_RerunRepeatsFailedStep ==
  (pc = "done" /\ fnIn # <<>>) =>
    \E k \in 1..Len(result[1].steps) :
      /\ result[1].steps[k].from = FailedStep.from
      /\ result[1].steps[k].to = FailedStep.to
      /\ result[1].steps[k].success
      /\ result[1].steps[k].stepNumber = FailedStep.stepNumber

----------------------------------------------------------------------------
(* applyCodemods applied on its own; a codemod is named by the constant
   that exports it *)

MaxNamed == 1

\* migration/codemods/index.ts: MIGRATION_CODEMODS
MIGRATION_CODEMODS ==
  (17 :> <<"removeModuleId", "rxjsImportMigration", "importFix">>) @@
  (18 :> <<"controlFlowMigration", "eventReplayMigration",
           "standaloneComponentMigration", "injectFunctionMigration">>) @@
  (19 :> <<"standaloneDefaultMigration", "incrementalHydrationMigration">>) @@
  (20 :> <<"fullSignalMigration", "zonelessDefaultMigration">>)

\* migration/codemods/index.ts: getCodemodsForVersion
getCodemodsForVersion(targetVersion) ==
  IF targetVersion \in DOMAIN MIGRATION_CODEMODS
  THEN MIGRATION_CODEMODS[targetVersion] ELSE <<>>

\* migration/codemods/index.ts: getCodemodsForMigrationPath
RECURSIVE CodemodsLoop(_, _)
CodemodsLoop(version, toVersion) ==
  IF version > toVersion THEN <<>>
  ELSE getCodemodsForVersion(version) \o CodemodsLoop(version + 1, toVersion)

getCodemodsForMigrationPath(fromVersion, toVersion) ==
  CodemodsLoop(fromVersion + 1, toVersion)

\* codemods/index.ts: allCodemods, the list applyFixes runs on every file
allCodemods ==
  <<"removeModuleId", "standaloneComponentMigration", "rxjsImportMigration",
    "injectFunctionMigration", "importFix">>

CodemodNames ==
  {allCodemods[k] : k \in 1..Len(allCodemods)} \cup
  UNION {{MIGRATION_CODEMODS[v][k] : k \in 1..Len(MIGRATION_CODEMODS[v])} :
           v \in DOMAIN MIGRATION_CODEMODS}

\* the lists --exclude-codemods and --only-codemods can name
NamedLists == {S \in SUBSET CodemodNames : Cardinality(S) <= MaxNamed}

\* applyCodemods, lines 276-280
filteredCodemods(codemods, excludeCodemods, customCodemods) ==
  SelectSeq(codemods, LAMBDA codemod :
    /\ codemod \notin excludeCodemods
    /\ ~(customCodemods # {} /\ codemod \notin customCodemods))

\* applyCodemods, lines 285-288, and applyFixes: the codemods whose apply
\* is called on each file of src/**/*.ts; the filtered list is not passed on
applyFixes(filtered) == allCodemods

InitCodemods ==
  /\ pc = "applyCodemods"
  /\ fnIn \in [migration : {<<17, 18>>, <<18, 19>>, <<19, 20>>},
               excludeCodemods : NamedLists, customCodemods : NamedLists]
  /\ fnOut = <<>>
  /\ manifest = NoManifest
  /\ installed = NoInstalled
  /\ lockFile = FALSE
  /\ registry = NoRegistry
  /\ pm = "npm"
  /\ Rest

\* applyCodemods
ApplyCodemodsCall ==
  /\ pc = "applyCodemods"
  /\ LET codemods == getCodemodsForMigrationPath(fnIn.migration[1], fnIn.migration[2])
         filtered == filteredCodemods(codemods, fnIn.excludeCodemods, fnIn.customCodemods)
     IN fnOut' = <<[filteredCodemods |-> filtered, applied |-> applyFixes(filtered)]>>
  /\ pc' = "codemodsApplied"
  /\ UNCHANGED <<opts, target, manifest, installed, lockFile, registry, pm,
                 analysis, chain, idx, steps, step, plan, depResult, ngIdx,
                 success, backupPath, result, trace, chainCalls, faults, fnIn>>

NextCodemods == ApplyCodemodsCall

SpecCodemods == InitCodemods /\ [][NextCodemods]_vars

\* the codemods that were applied to the files
Applied == {fnOut[1].applied[k] : k \in 1..Len(fnOut[1].applied)}

\* claim C30: a codemod named in excludeCodemods is never applied to a file,
\* and when customCodemods is not empty only the codemods it names are
\* applied.
C30_CodemodFiltersRespected ==
  pc = "codemodsApplied" =>
    /\ Applied \cap fnIn.excludeCodemods = {}
    /\ fnIn.customCodemods # {} => Applied \subseteq fnIn.customCodemods

----------------------------------------------------------------------------
(* migrate in interactive mode *)

\* the options of an interactive call: --interactive alone, or with one
\* more option away from the defaults
InteractiveOptionSets ==
  {[NoOpts EXCEPT !.interactive = TRUE]} \cup
  {[NoOpts EXCEPT !.interactive = TRUE, ![f] = ~NoOpts[f]] :
     f \in OptionNames \ {"interactive"}}

NextInteractive ==
  \/ \E t \in Targets, o \in InteractiveOptionSets : Migrate(t, o)
  \/ CreateBackup
  \/ LoopHead
  \/ AnalyzeConflicts
  \/ ResolveConflicts
  \/ UpdateManifest
  \/ NgUpdate
  \/ Install
  \/ CleanNodeModules
  \/ RetryInstall
  \/ ApplyCodemods
  \/ StepReturned
  \/ RunTests
  \/ Summarize

SpecInteractive == Init /\ [][NextInteractive]_vars

\* handleOptionalSteps was called: the prompts were issued
Prompted == \E i \in 1..Len(trace) : trace[i].e = "optionalSteps"

\* claim C31: the prompts for optional enhancements are issued only when the
\* interactive option is set, the run is not a dry run and the migration was
\* successful; they are never issued after a run in which a step failed.
C31_PromptsOnlyAfterCleanRun ==
  Prompted =>
    /\ opts.interactive
    /\ ~opts.dryRun
    /\ result[1].success
    /\ \A k \in 1..Len(result[1].steps) : result[1].steps[k].success

====
